---------------------------- MODULE Spec2Model ----------------------------
(***************************************************************************)
(* Model of the synthetic earthquake catalog pipeline (src/scripts/*.py).  *)
(*                                                                         *)
(* Each script is one process invocation that reads CSV files, computes,   *)
(* and writes CSV files.  The files are the shared state; the locals of    *)
(* the running script and its position are the process state.              *)
(*                                                                         *)
(* Fixed-point encodings (TLC integers are 32 bit, so every scale is       *)
(* chosen to keep intermediate products below 2^31):                       *)
(*   magnitude, b-value, sample_weight  : hundredths      (650 = 6.5)      *)
(*   lengths, widths, depths (km)       : hundredths of a km               *)
(*   areas (km^2)                       : hundredths of a km^2             *)
(*   longitude, latitude                : thousandths of a degree          *)
(*   log_energy                         : thousandths                      *)
(*   time                               : whole days since 2003-01-01      *)
(*                                        (the time of day never reaches   *)
(*                                        a computation of the pipeline)   *)
(***************************************************************************)
EXTENDS Integers, Sequences, FiniteSets, TLC

(***************************************************************************)
(* Bounds of the model.                                                    *)
(***************************************************************************)
\* Largest number of events in a real catalog drawn by an initial state.
MaxReal == 2
\* Number of events the physics generator is asked for in the model
\* (n_synthetics, 20 in the source).
NPhysics == 2
\* Number of events the simple generator is asked for in the model
\* (n_synthetic, 10 in the source).
NSimple == 1

(***************************************************************************)
(* Special floats: the value of a column a row does not have (pandas NaN)  *)
(* and the infinite b-value.                                               *)
(***************************************************************************)
\* A numeric column the row does not have; it lies below every number of the
\* model, and every comparison with it is false (see Lt, Gt, Ge, Le).
NaN == -1000000000
\* float('inf'): larger than every number of the model.
Inf == 2000000000

(***************************************************************************)
(* Numeric helpers: the float operations of the scripts in fixed point.    *)
(***************************************************************************)
Min(a, b) == IF a <= b THEN a ELSE b
Max(a, b) == IF a >= b THEN a ELSE b

\* math.sqrt / np.sqrt on a non-negative integer: the floor of the root,
\* found by bisection on [lo, hi).
RECURSIVE ISqrtIter(_, _, _)
ISqrtIter(n, lo, hi) ==
    IF hi - lo <= 1 THEN lo
    ELSE LET mid == (lo + hi) \div 2
         IN  IF mid * mid <= n THEN ISqrtIter(n, mid, hi)
                               ELSE ISqrtIter(n, lo, mid)
ISqrt(n) == ISqrtIter(n, 0, 46341)

\* 10 ** (d/10), 10 ** (d/100), 10 ** (d/1000), 10 ** (d/10000) for a digit
\* d = 0..9, scale 10^4.
Pow10Digit1 == <<10000, 12589, 15849, 19953, 25119, 31623, 39811, 50119, 63096, 79433>>
Pow10Digit2 == <<10000, 10233, 10471, 10715, 10965, 11220, 11482, 11749, 12023, 12303>>
Pow10Digit3 == <<10000, 10023, 10046, 10069, 10093, 10116, 10139, 10162, 10186, 10209>>
Pow10Digit4 == <<10000, 10002, 10005, 10007, 10009, 10012, 10014, 10016, 10018, 10021>>

\* Mantissa of 10 ** (f/10000) for 0 <= f < 10000, scale 10^4, in [1, 10).
Pow10Mantissa(f) ==
    LET m1 == Pow10Digit1[(f \div 1000) + 1]
        m2 == (m1 * Pow10Digit2[((f \div 100) % 10) + 1]) \div 10000
        m3 == (m2 * Pow10Digit3[((f \div 10) % 10) + 1]) \div 10000
    IN  (m3 * Pow10Digit4[(f % 10) + 1]) \div 10000

RECURSIVE IntPow10(_)
IntPow10(k) == IF k = 0 THEN 1 ELSE 10 * IntPow10(k - 1)

\* 10 ** x for x given in 1/10000, result in hundredths.
Pow10(x) ==
    LET k == x \div 10000
        m == Pow10Mantissa(x % 10000)
    IN  IF k >= 2 THEN m * IntPow10(k - 2)
                  ELSE m \div IntPow10(2 - k)

(***************************************************************************)
(* Great-circle distance, generate_physics_snapshots.py lines 94-107.      *)
(* Angles are in micro-radians; sin, cos and asin are their Taylor series. *)
(***************************************************************************)
\* math.radians of an angle in thousandths of a degree, in micro-radians
\* (pi/180 = 0.0174533).
Radians(mdeg) == (mdeg * 17453) \div 1000

\* sin(x) and asin(x) for a small x (|x| < 0.046), micro-radians in and out:
\* x - x^3/6 and x + x^3/6.
CubeOver6(x) == (((x * x) \div 1000000) * x) \div 6000000
SinSmall(x) == x - CubeOver6(x)
AsinSmall(x) == x + CubeOver6(x)

\* cos(x) for x in micro-radians, scale 10^4:
\* 1 - x^2/2 + x^4/24 - x^6/720 + x^8/40320.
Cos(x) ==
    LET y  == x \div 100
        y2 == (y * y) \div 10000
        y4 == (y2 * y2) \div 10000
        y6 == (y4 * y2) \div 10000
        y8 == (y4 * y4) \div 10000
    IN  10000 - (y2 \div 2) + (y4 \div 24) - (y6 \div 720) + (y8 \div 40320)

\* Radius of Earth in kilometers (r = 6371).
EarthRadiusKm == 6371

\* The haversine distance between (lon1, lat1) and (lon2, lat2), given in
\* thousandths of a degree; the result is in hundredths of a km.
Haversine(lon1, lat1, lon2, lat2) ==
    LET rlat1 == Radians(lat1)
        rlon1 == Radians(lon1)
        rlat2 == Radians(lat2)
        rlon2 == Radians(lon2)
        dlon  == rlon2 - rlon1
        dlat  == rlat2 - rlat1
        sdlat == SinSmall(dlat \div 2)
        sdlon == SinSmall(dlon \div 2)
        \* a, scale 10^9
        a     == ((sdlat * sdlat) \div 1000)
                 + ((((Cos(rlat1) * Cos(rlat2)) \div 10000)
                     * ((sdlon * sdlon) \div 1000)) \div 10000)
        \* c = 2 * asin(sqrt(a)), micro-radians
        c     == 2 * AsinSmall(ISqrt(a * 1000))
    IN  (c * EarthRadiusKm) \div 10000

\* Comparisons of floats: false as soon as one side is NaN.
Lt(a, b) == a # NaN /\ b # NaN /\ a < b
Gt(a, b) == a # NaN /\ b # NaN /\ a > b
Ge(a, b) == a # NaN /\ b # NaN /\ a >= b
Le(a, b) == a # NaN /\ b # NaN /\ a <= b

\* The elements of a sequence, and the sequences without repetition of at
\* most n elements of a set.
Range(s) == {s[k] : k \in 1..Len(s)}
RECURSIVE SeqsUpTo(_, _)
SeqsUpTo(S, n) ==
    IF n = 0 THEN {<< >>}
    ELSE LET shorter == SeqsUpTo(S, n - 1)
         IN  shorter \cup {Append(q, x) : q \in {t \in shorter : Len(t) = n - 1},
                                          x \in S} 
InjectiveSeqsUpTo(S, n) ==
    {q \in SeqsUpTo(S, n) : \A a, b \in 1..Len(q) : q[a] = q[b] => a = b}

(***************************************************************************)
(* Calendar: a time is a number of whole days since 2003-01-01.            *)
(***************************************************************************)
IsLeap(y) == (y % 4 = 0 /\ y % 100 # 0) \/ y % 400 = 0
DaysInYear(y) == IF IsLeap(y) THEN 366 ELSE 365
DaysInMonth(y, m) ==
    IF m = 2 THEN (IF IsLeap(y) THEN 29 ELSE 28)
    ELSE IF m \in {4, 6, 9, 11} THEN 30 ELSE 31

\* The first year of the study period: datetime(2003, 1, 1) is day 0.
EpochYear == 2003

\* pd.to_datetime(time).dt.year: the calendar year that holds day d.
RECURSIVE YearFrom(_, _)
YearFrom(y, d) ==
    IF d < 0 THEN YearFrom(y - 1, d + DaysInYear(y - 1))
    ELSE IF d >= DaysInYear(y) THEN YearFrom(y + 1, d - DaysInYear(y))
    ELSE y
YearOf(time) == IF time = NaN THEN NaN ELSE YearFrom(EpochYear, time)

\* The day number of the timestamp "year-month-day hh:mm:ss".
RECURSIVE DaysBeforeYear(_)
DaysBeforeYear(y) ==
    IF y = EpochYear THEN 0
    ELSE IF y > EpochYear THEN DaysBeforeYear(y - 1) + DaysInYear(y - 1)
    ELSE DaysBeforeYear(y + 1) - DaysInYear(y)
RECURSIVE DaysBeforeMonth(_, _)
DaysBeforeMonth(y, m) ==
    IF m = 1 THEN 0 ELSE DaysBeforeMonth(y, m - 1) + DaysInMonth(y, m - 1)
Timestamp(y, m, d) == DaysBeforeYear(y) + DaysBeforeMonth(y, m) + (d - 1)

(***************************************************************************)
(* Catalog rows.  Every row carries every column of the pipeline; a column *)
(* its file does not have is NaN, as after pd.concat.                      *)
(***************************************************************************)
\* A row with no column set.
BlankRow ==
    [id |-> "NaN", time |-> NaN, magnitude |-> NaN, longitude |-> NaN,
     latitude |-> NaN, depth_km |-> NaN, is_synthetic |-> NaN,
     sample_weight |-> NaN, method |-> "NaN", log_energy |-> NaN,
     rupture_length_km |-> NaN, rupture_width_km |-> NaN,
     rupture_area_km2 |-> NaN, avg_slip_m |-> NaN, segment_id |-> "NaN",
     strike |-> NaN, dip |-> NaN, rake |-> NaN,
     year |-> NaN, cv_fold |-> NaN, mag_range |-> NaN]

\* Mutant of RealEvent: the real events are flagged as synthetic.
RealEventFlaggedSynthetic(id, time, magnitude, longitude, latitude, depth_km) ==
    [BlankRow EXCEPT !.id = id, !.time = time, !.magnitude = magnitude,
                     !.longitude = longitude, !.latitude = latitude,
                     !.depth_km = depth_km,
                     !.is_synthetic = 1, !.sample_weight = 100,
                     !.method = "real",
                     !.log_energy = 15 * magnitude + 4800,
                     !.year = YearOf(time)]

\* A row of processed_earthquakes.csv as prepare_marmara_catalog writes it:
\* the real-event defaults, log_energy = 1.5 * magnitude + 4.8 and the year.
RealEvent(id, time, magnitude, longitude, latitude, depth_km) ==
    [BlankRow EXCEPT !.id = id, !.time = time, !.magnitude = magnitude,
                     !.longitude = longitude, !.latitude = latitude,
                     !.depth_km = depth_km,
                     !.is_synthetic = 0, !.sample_weight = 100,
                     !.method = "real",
                     !.log_energy = 15 * magnitude + 4800,
                     !.year = YearOf(time)]

\* The real events the initial catalogs are drawn from: magnitudes on both
\* sides of the template window [5.0, 6.0), a negative and a zero depth, and
\* times on both sides of the first and the last fold boundary.
RealPool ==
    { RealEvent("EQ_000001", Timestamp(2003, 1, 1),   500, 26100, 39600, 1000),
      RealEvent("EQ_000002", Timestamp(2005, 12, 31), 590, 28100, 40750,  750),
      RealEvent("EQ_000003", Timestamp(2006, 1, 1),   550, 29200, 40800, -120),
      RealEvent("EQ_000004", Timestamp(2002, 12, 31), 320, 26100, 39600, 1200),
      RealEvent("EQ_000005", Timestamp(2026, 1, 1),   600, 30400, 41400, 1500),
      RealEvent("EQ_000006", Timestamp(2025, 12, 31), 599, 28900, 40300,    0) }

\* The catalogs processed_earthquakes.csv may hold.
RealCatalogs == InjectiveSeqsUpTo(RealPool, MaxReal)

(***************************************************************************)
(* Fault segments, download_fault_data.py lines 24-65.  The coordinates    *)
(* string "lon,lat;lon,lat;..." is held parsed, as float pairs.            *)
(***************************************************************************)
NAF_Western ==
    [segment_id |-> "NAF_Western",
     coordinates |-> << <<26700, 40400>>, <<27200, 40500>>, <<27700, 40700>> >>,
     strike |-> 275, dip |-> 85, rake |-> 180,
     length_km |-> 8500, seismogenic_thickness_km |-> 1500]
NAF_Central ==
    [segment_id |-> "NAF_Central",
     coordinates |-> << <<27700, 40700>>, <<28300, 40800>>, <<28900, 40900>> >>,
     strike |-> 270, dip |-> 80, rake |-> 175,
     length_km |-> 7000, seismogenic_thickness_km |-> 1700]
NAF_Eastern ==
    [segment_id |-> "NAF_Eastern",
     coordinates |-> << <<28900, 40900>>, <<29500, 40700>>, <<30000, 40600>> >>,
     strike |-> 265, dip |-> 75, rake |-> 170,
     length_km |-> 6500, seismogenic_thickness_km |-> 1500]
NAF_Southern ==
    [segment_id |-> "NAF_Southern",
     coordinates |-> << <<27500, 40500>>, <<28200, 40400>>, <<28900, 40300>>,
                        <<29500, 40200>> >>,
     strike |-> 260, dip |-> 80, rake |-> 165,
     length_km |-> 12000, seismogenic_thickness_km |-> 1200]

\* Mutant of ShippedFaults: the trace of NAF_Central ends at its second
\* vertex.
ShippedFaultsShortCentral ==
    <<NAF_Western,
      [NAF_Central EXCEPT !.coordinates = SubSeq(NAF_Central.coordinates, 1, 2)],
      NAF_Eastern, NAF_Southern>>

\* marmara_faults.csv as download_fault_data writes it.
ShippedFaults == <<NAF_Western, NAF_Central, NAF_Eastern, NAF_Southern>>

\* A segment cut down to its first n vertices (a shorter trace of the same
\* fault, with the same metadata).
Truncated(segment, n) ==
    [segment EXCEPT !.coordinates = SubSeq(segment.coordinates, 1, n)]

\* The fault tables marmara_faults.csv may hold: the shipped one, tables
\* whose segments host only the smaller ruptures, and a table without rows.
SmallFaultTables ==
    { <<NAF_Western, Truncated(NAF_Central, 2)>>,
      <<Truncated(NAF_Central, 2)>>,
      << >> }
FaultTables == SmallFaultTables \cup {ShippedFaults}

(***************************************************************************)
(* The validity filter of the generators ("sanity checks").                *)
(***************************************************************************)
\* The rows the filter selects as invalid_events.
IsInvalid(e) == Lt(e.depth_km, 0) \/ Gt(e.rupture_length_km, 20000)
\* Mutant of ValidityFilter: every event is kept.
KeepEveryEvent(events) == events

ValidityFilter(events) == SelectSeq(events, LAMBDA e : ~IsInvalid(e))

(***************************************************************************)
(* Bootstrap strategy, generate_bootstrap_synthetics.py.                   *)
(***************************************************************************)
\* The template filter: 5.0 <= magnitude < 6.0.
\* Mutant of IsTemplate: magnitude 6.0 is let in.
IsTemplateInclusive(e) == Ge(e.magnitude, 500) /\ Le(e.magnitude, 600)

IsTemplate(e) == Ge(e.magnitude, 500) /\ Lt(e.magnitude, 600)
TemplateEvents(eq_data) == SelectSeq(eq_data, IsTemplate)

\* Wells-Coppersmith: 10 ** (-2.44 + 0.59 M) and 10 ** (-1.01 + 0.32 M).
WellsCoppersmithLength(mag) == Pow10(59 * mag - 24400)
WellsCoppersmithWidth(mag) == Pow10(32 * mag - 10100)

\* random.uniform(1.5, 2.3)
MagnitudeIncreaseDraws == {150, 200, 230}

\* The body of the loop over the templates: the synthetic row made from
\* `event` with the drawn magnitude_increase.
\* Mutant of BootstrapEvent: the log_energy of the template is kept.
BootstrapEventEnergyKept(event, magnitude_increase) ==
    LET new_mag    == event.magnitude + magnitude_increase
        new_length == WellsCoppersmithLength(new_mag)
        new_width  == WellsCoppersmithWidth(new_mag)
    IN  [event EXCEPT
            !.magnitude = new_mag,
            !.id = "SYN_" \o event.id,
            !.rupture_length_km = new_length,
            !.rupture_width_km = new_width,
            !.rupture_area_km2 = (new_length * new_width) \div 100,
            !.is_synthetic = 1,
            !.sample_weight = 30,
            !.method = "bootstrap"]

\* Mutant of BootstrapEvent: the event is moved to the surface.
BootstrapEventAtSurface(event, magnitude_increase) ==
    LET new_mag    == event.magnitude + magnitude_increase
        new_length == WellsCoppersmithLength(new_mag)
        new_width  == WellsCoppersmithWidth(new_mag)
    IN  [event EXCEPT
            !.magnitude = new_mag,
            !.id = "SYN_" \o event.id,
            !.depth_km = 0,
            !.log_energy = event.log_energy + 15 * magnitude_increase,
            !.rupture_length_km = new_length,
            !.rupture_width_km = new_width,
            !.rupture_area_km2 = (new_length * new_width) \div 100,
            !.is_synthetic = 1,
            !.sample_weight = 30,
            !.method = "bootstrap"]

BootstrapEvent(event, magnitude_increase) ==
    LET original_mag == event.magnitude
        new_mag      == original_mag + magnitude_increase
        new_length   == WellsCoppersmithLength(new_mag)
        new_width    == WellsCoppersmithWidth(new_mag)
    IN  [event EXCEPT
            !.magnitude = new_mag,
            !.id = "SYN_" \o event.id,
            !.log_energy = event.log_energy + 15 * magnitude_increase,
            !.rupture_length_km = new_length,
            !.rupture_width_km = new_width,
            !.rupture_area_km2 = (new_length * new_width) \div 100,
            !.is_synthetic = 1,
            !.sample_weight = 30,
            !.method = "bootstrap"]

(***************************************************************************)
(* Physics strategy, generate_physics_snapshots.py.                        *)
(***************************************************************************)
\* b_value.txt: it exists or not; its text is a float (value, in hundredths,
\* Inf for "inf") or not ("None").
NoBValueFile == [exists |-> FALSE, is_float |-> FALSE, value |-> NaN]
BValueText(b_val) ==
    IF b_val = NaN THEN [exists |-> TRUE, is_float |-> FALSE, value |-> NaN]
                   ELSE [exists |-> TRUE, is_float |-> TRUE, value |-> b_val]

\* What analyze_earthquake_catalog can leave in b_value.txt: nothing (it has
\* not run), "None" (fewer than two magnitudes >= 3.5), a positive float
\* log10(e) / (mean - 3.5), or "inf" (every magnitude is 3.5).
BValueFiles == {NoBValueFile, BValueText(NaN), BValueText(77), BValueText(Inf)}

\* The fallback b-value, 1.15.
FallbackBValue == 115

\* Lines 38-52: the b-value the generator uses.
ReadBValue(file) ==
    IF file.exists
    THEN IF file.is_float THEN file.value ELSE FallbackBValue
    ELSE FallbackBValue

\* log10 of v/10000 for v >= 1, in 1/10000: the largest exponent whose
\* power of ten does not exceed v.
RECURSIVE Log10Frac(_, _, _)
Log10Frac(m, lo, hi) ==
    IF hi - lo <= 1 THEN lo
    ELSE LET mid == (lo + hi) \div 2
         IN  IF Pow10Mantissa(mid) <= m THEN Log10Frac(m, mid, hi)
                                        ELSE Log10Frac(m, lo, mid)
RECURSIVE Log10(_)
Log10(v) ==
    IF v >= 100000 THEN 10000 + Log10(v \div 10)
    ELSE IF v < 10000 THEN Log10(v * 10) - 10000
    ELSE Log10Frac(v, 0, 10000)

\* The floor and the cap of the sampled magnitudes, 6.5 and 7.3.
FloorMagnitude == 650
CapMagnitude == 730

\* random.random(), in 1/10000: 0 <= r < 1.
RandomDraws == {0, 5000, 9999}

\* Lines 61-64: mag = min(6.5 - log10(1 - r) / b_value, 7.3).
\* Mutant of SampleMagnitude: the magnitude is not capped.
SampleMagnitudeUncapped(r, b_value) ==
    FloorMagnitude + ((0 - Log10(10000 - r)) \div b_value)

SampleMagnitude(r, b_value) ==
    LET mag == FloorMagnitude + ((0 - Log10(10000 - r)) \div b_value)
    IN  Min(mag, CapMagnitude)

\* Area law: 10 ** (magnitude - 4.0), sqrt(area * 2), length / 2.
RuptureArea(magnitude) == Pow10((magnitude - 400) * 100)
RuptureLength(rupture_area) == ISqrt(200 * rupture_area)
RuptureWidth(rupture_length) == rupture_length \div 2

\* Lines 92-109: the length of the trace, the distances of its consecutive
\* vertex pairs summed by the loop over i.
RECURSIVE SegmentLengthLoop(_, _, _)
SegmentLengthLoop(coords, i, segment_length) ==
    IF i > Len(coords) - 1 THEN segment_length
    ELSE SegmentLengthLoop(coords, i + 1,
            segment_length + Haversine(coords[i][1], coords[i][2],
                                       coords[i + 1][1], coords[i + 1][2]))

\* Lines 80-111.
\* Mutant of segment_can_host_rupture: the length_km of the table is
\* compared, not the length of the trace.
can_host_by_length_km(segment, rupture_length) ==
    segment.length_km >= rupture_length

segment_can_host_rupture(segment, rupture_length) ==
    SegmentLengthLoop(segment.coordinates, 1, 0) >= rupture_length

\* Mutant of SuitableSegments: every segment is taken as suitable.
EverySegment(fault_data, rupture_length) == fault_data

\* Mutant of SuitableSegments: when no segment can host the rupture, every
\* segment is taken as suitable.
SuitableSegmentsOrEvery(fault_data, rupture_length) ==
    LET suitable ==
            SelectSeq(fault_data,
                      LAMBDA segment :
                          segment_can_host_rupture(segment, rupture_length))
    IN  IF suitable = << >> THEN fault_data ELSE suitable

\* Lines 125-128.
SuitableSegments(fault_data, rupture_length) ==
    SelectSeq(fault_data,
              LAMBDA segment : segment_can_host_rupture(segment, rupture_length))

\* Lines 138-142: moment / (mu * rupture_area * 1e6), in mm.  The moment
\* 10 ** (1.5 M + 9.1) and the divisor are both taken over 10^16.
AvgSlip(magnitude, rupture_area) ==
    LET moment == Pow10(150 * magnitude + 91000 - 160000)
    IN  (moment * 1000) \div ((32 * rupture_area) \div 10)

\* np.random.lognormal(0, 0.3), in hundredths.
SlipVariationDraws == {74, 135}
\* random.uniform(6, 12), months.
MonthsDraws == {6, 12}
\* Mutant of PhysicsDepthDraws: a depth above the surface can be drawn.
PhysicsDepthDrawsFromAir == {-500, 1500}

\* random.uniform(5, 15), km.
PhysicsDepthDraws == {500, 1500}
\* random.uniform(-0.045, 0.045), degrees, for the longitude and the latitude.
LonJitterDraws == {-45}
LatJitterDraws == {45}

\* random.randint(0, n - 1): both ends of the range.
RandIndexDraws(n) == {0, n - 1}

\* Mutant of Pad3: the index is left out of the id.
Pad3Unindexed(n) == "000"

\* f"{n:03d}"
Pad3(n) ==
    IF n < 10 THEN "00" \o ToString(n)
    ELSE IF n < 100 THEN "0" \o ToString(n) ELSE ToString(n)

\* Line 55: the number of events the generator is configured to make, and
\* the target its comment names ("Target is ~100").
n_synthetics_target == 100
n_synthetics == 20
\* Lines 74-75: the study period, days.
start_date == Timestamp(EpochYear, 1, 1)
end_date == Timestamp(2025, 1, 1)

\* Lines 149-150: the origin time of the event of index i, given its draw
\* of random.uniform(6, 12): months_offset = months * i, and
\* start_date + timedelta(days=months_offset * 30).
OriginTime(i, months) ==
    LET months_offset == months * i
    IN  start_date + months_offset * 30

\* Lines 137-187: the record of the event of index i (from 0), given its
\* magnitude, the selected segment and the draws.
PhysicsEvent(i, magnitude, selected_segment, slip_variation, months, depth, rand_index, jlon, jlat) ==
    LET rupture_area   == RuptureArea(magnitude)
        rupture_length == RuptureLength(rupture_area)
        rupture_width  == RuptureWidth(rupture_length)
        avg_slip       == AvgSlip(magnitude, rupture_area)
        slip           == (avg_slip * slip_variation) \div 100
        origin_time    == OriginTime(i, months)
        vertex         == selected_segment.coordinates[rand_index + 1]
    IN  [BlankRow EXCEPT
            !.id = "SYN_PHYS_" \o Pad3(i + 1),
            !.time = origin_time,
            !.magnitude = magnitude,
            !.depth_km = depth,
            !.segment_id = selected_segment.segment_id,
            !.rupture_length_km = rupture_length,
            !.rupture_width_km = rupture_width,
            !.rupture_area_km2 = rupture_area,
            !.avg_slip_m = avg_slip,
            !.is_synthetic = 1,
            !.sample_weight = 50,
            !.method = "physics",
            !.strike = selected_segment.strike,
            !.dip = selected_segment.dip,
            !.rake = selected_segment.rake,
            !.longitude = vertex[1] + jlon,
            !.latitude = vertex[2] + jlat]

(***************************************************************************)
(* Simple strategy, generate_simple_synthetics.py.                         *)
(***************************************************************************)
\* The template pool: magnitude >= 5.0.
SimpleTemplates(all_rows) == SelectSeq(all_rows, LAMBDA e : Ge(e.magnitude, 500))

\* random.uniform(6.5, 7.3), random.uniform(-0.3, 0.3),
\* random.uniform(-0.2, 0.2), random.uniform(5, 20).
SimpleMagnitudeDraws == {650, 730}
SimpleLonJitterDraws == {-300, 300}
SimpleLatJitterDraws == {-200, 200}
SimpleDepthDraws == {500, 2000}
\* random.randint(2003, 2025), random.randint(1, 12), random.randint(1, 28).
SimpleYearDraws == {2003, 2025}
SimpleMonthDraws == {2, 12}
SimpleDayDraws == {28}

\* Mutant of Clamp: the jittered coordinate is kept as it is.
NoClamp(lo, hi, v) == v

\* The study region, degrees: longitude in [26.0, 30.5], latitude in
\* [39.5, 41.5].
Clamp(lo, hi, v) == Max(lo, Min(hi, v))

\* Lines 33-83: the event of index i (from 0).
SimpleEvent(i, template, magnitude, jlon, jlat, depth, year, month, day) ==
    LET longitude == Clamp(26000, 30500, template.longitude + jlon)
        latitude  == Clamp(39500, 41500, template.latitude + jlat)
        area      == RuptureArea(magnitude)
        length    == RuptureLength(area)
        width     == RuptureWidth(length)
    IN  [BlankRow EXCEPT
            !.id = "SYN_SIMPLE_" \o Pad3(i + 1),
            !.longitude = longitude,
            !.latitude = latitude,
            !.depth_km = depth,
            !.magnitude = magnitude,
            !.is_synthetic = 1,
            !.sample_weight = 20,
            !.method = "simple",
            !.time = Timestamp(year, month, day),
            !.rupture_length_km = length,
            !.rupture_width_km = width,
            !.rupture_area_km2 = area]

(***************************************************************************)
(* Assembly, assemble_dataset.py and finalize_dataset.py.                  *)
(***************************************************************************)
\* Lines 38-44: the columns added to the real data when it lacks them.
WithRealDefaults(e) ==
    [e EXCEPT !.is_synthetic = IF @ = NaN THEN 0 ELSE @,
              !.sample_weight = IF @ = NaN THEN 100 ELSE @,
              !.method = IF @ = "NaN" THEN "real" ELSE @]
RealDefaults(rows) == [k \in 1..Len(rows) |-> WithRealDefaults(rows[k])]

\* Mutant of Concat: the last frame is left out.
ConcatWithoutLast(frames) ==
    LET RECURSIVE Join(_)
        Join(k) == IF k = 0 THEN << >> ELSE Join(k - 1) \o frames[k]
    IN  Join(Len(frames) - 1)

\* pd.concat([...], ignore_index=True)
Concat(frames) ==
    LET RECURSIVE Join(_)
        Join(k) == IF k = 0 THEN << >> ELSE Join(k - 1) \o frames[k]
    IN  Join(Len(frames))

\* all_data['year'] = all_data['datetime'].dt.year; all_data['cv_fold'] = -1
WithYear(e) == [e EXCEPT !.year = YearOf(e.time), !.cv_fold = -1]
YearColumn(rows) == [k \in 1..Len(rows) |-> WithYear(rows[k])]

\* Mutant of fold_years: the second range starts on the last year of the
\* first.
fold_years_overlapping ==
    << <<2003, 2005>>, <<2005, 2008>>, <<2009, 2011>>, <<2012, 2014>>,
       <<2015, 2017>>, <<2018, 2020>>, <<2021, 2025>> >>

\* Mutant of fold_years: the last range ends with 2024.
fold_years_ending_2024 ==
    << <<2003, 2005>>, <<2006, 2008>>, <<2009, 2011>>, <<2012, 2014>>,
       <<2015, 2017>>, <<2018, 2020>>, <<2021, 2024>> >>

\* The fold table.
fold_years ==
    << <<2003, 2005>>, <<2006, 2008>>, <<2009, 2011>>, <<2012, 2014>>,
       <<2015, 2017>>, <<2018, 2020>>, <<2021, 2025>> >>

\* One turn of the loop over fold_years, for fold_idx from 0: the rows of
\* the mask get cv_fold = fold_idx.
\* Mutant of InFoldRange: the last year of a range is left out.
InFoldRangeExclusive(e, fold_idx) ==
    /\ Ge(e.year, fold_years[fold_idx + 1][1])
    /\ Lt(e.year, fold_years[fold_idx + 1][2])

InFoldRange(e, fold_idx) ==
    /\ Ge(e.year, fold_years[fold_idx + 1][1])
    /\ Le(e.year, fold_years[fold_idx + 1][2])
AssignFold(rows, fold_idx) ==
    [k \in 1..Len(rows) |->
        IF InFoldRange(rows[k], fold_idx)
        THEN [rows[k] EXCEPT !.cv_fold = fold_idx] ELSE rows[k]]

\* pd.cut(magnitude, [3.0, 4.0, 5.0, 6.0, 7.0, 8.0]): the left edge of the
\* right-closed bin (left, right] that holds the magnitude, NaN outside.
mag_bins == <<300, 400, 500, 600, 700, 800>>
Cut(magnitude) ==
    LET hits == {k \in 1..(Len(mag_bins) - 1) :
                    Gt(magnitude, mag_bins[k]) /\ Le(magnitude, mag_bins[k + 1])}
    IN  IF hits = {} THEN NaN ELSE mag_bins[CHOOSE k \in hits : TRUE]
WithMagRange(e) == [e EXCEPT !.mag_range = Cut(e.magnitude)]
MagRangeColumn(rows) == [k \in 1..Len(rows) |-> WithMagRange(rows[k])]

(***************************************************************************)
(* State.                                                                  *)
(***************************************************************************)
\* A CSV file: whether it exists, and its rows.
NoFile == [exists |-> FALSE, rows |-> << >>]
File(rows) == [exists |-> TRUE, rows |-> rows]

VARIABLES
    \* the files
    marmara_catalog_processed, \* marmara_catalog_processed.csv, the raw catalog
    processed_earthquakes,     \* processed_earthquakes.csv
    b_value_file,              \* b_value.txt
    marmara_faults,            \* marmara_faults.csv
    synthetic_bootstrap,       \* synthetic_bootstrap_v1.csv
    synthetic_physics,         \* synthetic_physics_snapshots_v1.csv
    synthetic_simple,          \* synthetic_simple_v1.csv
    combined_dataset,          \* combined_dataset_v1.csv
    final_dataset,             \* final_dataset_v1.csv
    \* the running script
    pc,                        \* its position; "idle" between two scripts
    budget,                    \* the script runs that may still start
    \* the locals of the generators
    template_events,           \* template_events / templates
    b_value,
    magnitudes,
    synthetic_events,          \* the raw events of the loop
    i,                         \* the index of the loop (from 0)
    \* the locals of the assemblers
    real_data, bootstrap_data, physics_data, simple_data,
    all_data,
    fold_idx,
    \* a call of segment_can_host_rupture on its own
    host_check,                \* its arguments, and its result once made
    \* the origin times of two consecutive indexes of the physics loop
    time_check                 \* the indexes, the draws, and the times once made

files == <<processed_earthquakes, b_value_file, marmara_faults,
           synthetic_bootstrap, synthetic_physics, synthetic_simple,
           combined_dataset, final_dataset>>
generator_locals == <<template_events, b_value, magnitudes, synthetic_events, i>>
assembler_locals == <<real_data, bootstrap_data, physics_data, simple_data,
                      all_data, fold_idx>>
\* What no script of the later stages touches: the raw catalog and the
\* calls made on their own.
others == <<marmara_catalog_processed, host_check, time_check>>
vars == <<files, pc, budget, generator_locals, assembler_locals, others>>

\* A script may start: none is running and the budget is not used up.
CanStart == pc \in {"idle", "aborted"} /\ budget > 0

\* The script died on an exception before writing anything.
Abort ==
    /\ pc' = "aborted"
    /\ budget' = budget - 1
    /\ UNCHANGED <<files, generator_locals, assembler_locals, others>>

(***************************************************************************)
(* generate_bootstrap_synthetics()                                         *)
(***************************************************************************)
\* Lines 24-36: read the catalog (pd.read_csv raises when the file is
\* missing) and select the templates.
BootstrapLoad ==
    /\ CanStart
    /\ IF ~processed_earthquakes.exists
       THEN Abort
       ELSE /\ template_events' = TemplateEvents(processed_earthquakes.rows)
            /\ synthetic_events' = << >>
            /\ i' = 0
            /\ pc' = "bootstrap_loop"
            /\ budget' = budget - 1
            /\ UNCHANGED <<files, b_value, magnitudes, assembler_locals,
                           others>>

\* Lines 38-86: one turn of the loop over the templates.
BootstrapStep ==
    /\ pc = "bootstrap_loop"
    /\ i < Len(template_events)
    /\ \E magnitude_increase \in MagnitudeIncreaseDraws :
          synthetic_events' =
              Append(synthetic_events,
                     BootstrapEvent(template_events[i + 1], magnitude_increase))
    /\ i' = i + 1
    /\ UNCHANGED <<files, pc, budget, template_events, b_value, magnitudes,
                   assembler_locals, others>>

\* Lines 88-137: filter and write the events, when there is one.
BootstrapSave ==
    /\ pc = "bootstrap_loop"
    /\ i = Len(template_events)
    /\ synthetic_bootstrap' =
          IF synthetic_events # << >>
          THEN File(ValidityFilter(synthetic_events))
          ELSE synthetic_bootstrap
    /\ pc' = "idle"
    /\ UNCHANGED <<processed_earthquakes, b_value_file, marmara_faults,
                   synthetic_physics, synthetic_simple, combined_dataset,
                   final_dataset, budget, generator_locals, assembler_locals,
                   others>>

(***************************************************************************)
(* generate_physics_snapshots()                                            *)
(***************************************************************************)
\* Lines 29-55: read the fault table and the catalog, and the b-value.
PhysicsLoad ==
    /\ CanStart
    /\ IF ~marmara_faults.exists \/ ~processed_earthquakes.exists
       THEN Abort
       ELSE /\ b_value' = ReadBValue(b_value_file)
            /\ magnitudes' = << >>
            /\ synthetic_events' = << >>
            /\ i' = 0
            /\ pc' = "physics_magnitudes"
            /\ budget' = budget - 1
            /\ UNCHANGED <<files, template_events, assembler_locals,
                           others>>

\* Lines 57-65: one turn of the loop that draws the magnitudes.
PhysicsMagnitudeStep ==
    /\ pc = "physics_magnitudes"
    /\ Len(magnitudes) < NPhysics
    /\ \E r \in RandomDraws :
          magnitudes' = Append(magnitudes, SampleMagnitude(r, b_value))
    /\ pc' = IF Len(magnitudes) + 1 = NPhysics THEN "physics_events" ELSE pc
    /\ UNCHANGED <<files, budget, template_events, b_value, synthetic_events,
                   i, assembler_locals, others>>

\* Lines 114-190: one turn of the loop over the magnitudes; an index no
\* segment can host is passed over (continue).
PhysicsEventStep ==
    /\ pc = "physics_events"
    /\ i < Len(magnitudes)
    /\ LET magnitude         == magnitudes[i + 1]
           rupture_length    == RuptureLength(RuptureArea(magnitude))
           suitable_segments == SuitableSegments(marmara_faults.rows,
                                                 rupture_length)
       IN  IF suitable_segments = << >>
           THEN synthetic_events' = synthetic_events
           ELSE \E k \in 1..Len(suitable_segments),
                   slip_variation \in SlipVariationDraws,
                   months \in MonthsDraws,
                   depth \in PhysicsDepthDraws,
                   jlon \in LonJitterDraws,
                   jlat \in LatJitterDraws :
                \E rand_index \in
                       RandIndexDraws(Len(suitable_segments[k].coordinates)) :
                   synthetic_events' =
                       Append(synthetic_events,
                              PhysicsEvent(i, magnitude, suitable_segments[k],
                                           slip_variation, months, depth,
                                           rand_index, jlon, jlat))
    /\ i' = i + 1
    /\ UNCHANGED <<files, pc, budget, template_events, b_value, magnitudes,
                   assembler_locals, others>>

\* Lines 192-268: filter and write the events, when there is one.
PhysicsSave ==
    /\ pc = "physics_events"
    /\ i = Len(magnitudes)
    /\ synthetic_physics' =
          IF synthetic_events # << >>
          THEN File(ValidityFilter(synthetic_events))
          ELSE synthetic_physics
    /\ pc' = "idle"
    /\ UNCHANGED <<processed_earthquakes, b_value_file, marmara_faults,
                   synthetic_bootstrap, synthetic_simple, combined_dataset,
                   final_dataset, budget, generator_locals, assembler_locals,
                   others>>

(***************************************************************************)
(* generate_simple_synthetics()                                            *)
(***************************************************************************)
\* Lines 22-33: read the combined dataset and select the templates.
SimpleLoad ==
    /\ CanStart
    /\ IF ~combined_dataset.exists
       THEN Abort
       ELSE /\ template_events' = SimpleTemplates(combined_dataset.rows)
            /\ synthetic_events' = << >>
            /\ i' = 0
            /\ pc' = "simple_loop"
            /\ budget' = budget - 1
            /\ UNCHANGED <<files, b_value, magnitudes, assembler_locals,
                           others>>

\* Lines 35-88: one turn of the loop; templates.sample(1) raises on an
\* empty pool.
SimpleStep ==
    /\ pc = "simple_loop"
    /\ i < NSimple
    /\ IF template_events = << >>
       THEN /\ pc' = "aborted"
            /\ UNCHANGED <<synthetic_events, i, others>>
       ELSE /\ \E t \in 1..Len(template_events),
                  magnitude \in SimpleMagnitudeDraws,
                  jlon \in SimpleLonJitterDraws,
                  jlat \in SimpleLatJitterDraws,
                  depth \in SimpleDepthDraws,
                  year \in SimpleYearDraws,
                  month \in SimpleMonthDraws,
                  day \in SimpleDayDraws :
                 synthetic_events' =
                     Append(synthetic_events,
                            SimpleEvent(i, template_events[t], magnitude, jlon,
                                        jlat, depth, year, month, day))
            /\ i' = i + 1
            /\ pc' = pc
    /\ UNCHANGED <<files, budget, template_events, b_value, magnitudes,
                   assembler_locals, others>>

\* Lines 90-96: write the events.
SimpleSave ==
    /\ pc = "simple_loop"
    /\ i = NSimple
    /\ synthetic_simple' = File(synthetic_events)
    /\ pc' = "idle"
    /\ UNCHANGED <<processed_earthquakes, b_value_file, marmara_faults,
                   synthetic_bootstrap, synthetic_physics, combined_dataset,
                   final_dataset, budget, generator_locals, assembler_locals,
                   others>>

(***************************************************************************)
(* assemble_dataset()                                                      *)
(***************************************************************************)
\* Lines 29-75: read the three files (pd.read_csv raises on a missing one),
\* concatenate them, derive the year and set cv_fold to -1.
AssembleLoad ==
    /\ CanStart
    /\ IF \/ ~processed_earthquakes.exists
          \/ ~synthetic_bootstrap.exists
          \/ ~synthetic_physics.exists
       THEN Abort
       ELSE /\ real_data' = RealDefaults(processed_earthquakes.rows)
            /\ bootstrap_data' = synthetic_bootstrap.rows
            /\ physics_data' = synthetic_physics.rows
            /\ simple_data' = << >>
            /\ all_data' = YearColumn(Concat(<<real_data', bootstrap_data',
                                               physics_data'>>))
            /\ fold_idx' = 0
            /\ pc' = "assemble_folds"
            /\ budget' = budget - 1
            /\ UNCHANGED <<files, generator_locals, others>>

\* Lines 76-78: one turn of the loop over fold_years.
AssembleFoldStep ==
    /\ pc = "assemble_folds"
    /\ fold_idx < Len(fold_years)
    /\ all_data' = AssignFold(all_data, fold_idx)
    /\ fold_idx' = fold_idx + 1
    /\ UNCHANGED <<files, pc, budget, generator_locals, real_data,
                   bootstrap_data, physics_data, simple_data, others>>

\* Lines 85-126: bin the magnitudes and write the combined dataset.
AssembleSave ==
    /\ pc = "assemble_folds"
    /\ fold_idx = Len(fold_years)
    /\ all_data' = MagRangeColumn(all_data)
    /\ combined_dataset' = File(all_data')
    /\ pc' = "idle"
    /\ UNCHANGED <<processed_earthquakes, b_value_file, marmara_faults,
                   synthetic_bootstrap, synthetic_physics, synthetic_simple,
                   final_dataset, budget, generator_locals, real_data,
                   bootstrap_data, physics_data, simple_data, fold_idx,
                   others>>

(***************************************************************************)
(* finalize_dataset()                                                      *)
(***************************************************************************)
\* Lines 27-69: as assemble_dataset, with the simple events as a fourth set.
FinalizeLoad ==
    /\ CanStart
    /\ IF \/ ~processed_earthquakes.exists
          \/ ~synthetic_bootstrap.exists
          \/ ~synthetic_physics.exists
          \/ ~synthetic_simple.exists
       THEN Abort
       ELSE /\ real_data' = RealDefaults(processed_earthquakes.rows)
            /\ bootstrap_data' = synthetic_bootstrap.rows
            /\ physics_data' = synthetic_physics.rows
            /\ simple_data' = synthetic_simple.rows
            /\ all_data' = YearColumn(Concat(<<real_data', bootstrap_data',
                                               physics_data', simple_data'>>))
            /\ fold_idx' = 0
            /\ pc' = "finalize_folds"
            /\ budget' = budget - 1
            /\ UNCHANGED <<files, generator_locals, others>>

\* Lines 70-72: one turn of the loop over fold_years.
FinalizeFoldStep ==
    /\ pc = "finalize_folds"
    /\ fold_idx < Len(fold_years)
    /\ all_data' = AssignFold(all_data, fold_idx)
    /\ fold_idx' = fold_idx + 1
    /\ UNCHANGED <<files, pc, budget, generator_locals, real_data,
                   bootstrap_data, physics_data, simple_data, others>>

\* Lines 74-146: bin the magnitudes and write the final dataset.
FinalizeSave ==
    /\ pc = "finalize_folds"
    /\ fold_idx = Len(fold_years)
    /\ all_data' = MagRangeColumn(all_data)
    /\ final_dataset' = File(all_data')
    /\ pc' = "idle"
    /\ UNCHANGED <<processed_earthquakes, b_value_file, marmara_faults,
                   synthetic_bootstrap, synthetic_physics, synthetic_simple,
                   combined_dataset, budget, generator_locals, real_data,
                   bootstrap_data, physics_data, simple_data, fold_idx,
                   others>>

(***************************************************************************)
(* Initial states.  A behaviour starts from the files one stage of the     *)
(* pipeline finds: those the earlier stages, or an earlier run, left.      *)
(***************************************************************************)
\* The locals before any script has run.
NoLocals ==
    /\ pc = "idle"
    /\ template_events = << >>
    /\ b_value = NaN
    /\ magnitudes = << >>
    /\ synthetic_events = << >>
    /\ i = 0
    /\ real_data = << >>
    /\ bootstrap_data = << >>
    /\ physics_data = << >>
    /\ simple_data = << >>
    /\ all_data = << >>
    /\ fold_idx = 0

\* No call of segment_can_host_rupture on its own is under way.
NoHostCheck == [called |-> FALSE]
\* The stages after the preparation do not read the raw catalog, and no
\* origin time is computed on its own.
NoOthers ==
    /\ marmara_catalog_processed = NoFile
    /\ host_check = NoHostCheck
    /\ time_check = [called |-> FALSE]

\* One real event of each kind, by its id.
Real(id) == CHOOSE e \in RealPool : e.id = id

\* Files that earlier runs of the generators can have left.
BootstrapFiles ==
    { NoFile,
      File(<< >>),
      File(<<BootstrapEvent(Real("EQ_000002"), 200)>>) }
PhysicsFiles ==
    { NoFile,
      File(<<PhysicsEvent(0, 650, NAF_Western, 100, 6, 500, 0, -45, 45),
             PhysicsEvent(1, 730, NAF_Southern, 135, 12, 1500, 3, -45, 45)>>) }
SimpleFiles ==
    { NoFile,
      File(<<SimpleEvent(0, Real("EQ_000005"), 730, 300, 200, 2000,
                         2025, 12, 28)>>) }

\* The rows of a combined dataset assembled from the given frames.
RECURSIVE AssignFolds(_, _)
AssignFolds(rows, n) ==
    IF n = 0 THEN rows ELSE AssignFold(AssignFolds(rows, n - 1), n - 1)
Assembled(frames) ==
    MagRangeColumn(AssignFolds(YearColumn(Concat(frames)), Len(fold_years)))
CombinedFiles ==
    { NoFile,
      File(Assembled(<< <<Real("EQ_000004")>>, << >>, << >> >>)),
      File(Assembled(<< <<Real("EQ_000001"), Real("EQ_000005")>>,
                        <<BootstrapEvent(Real("EQ_000001"), 150)>>,
                        << >> >>)) }

\* The bootstrap generator finds a catalog, and maybe its own earlier output.
InitBootstrap ==
    /\ NoLocals
    /\ NoOthers
    /\ budget = 1
    /\ processed_earthquakes \in {NoFile} \cup {File(c) : c \in RealCatalogs}
    /\ b_value_file = NoBValueFile
    /\ marmara_faults = NoFile
    /\ synthetic_bootstrap \in BootstrapFiles
    /\ synthetic_physics = NoFile
    /\ synthetic_simple = NoFile
    /\ combined_dataset = NoFile
    /\ final_dataset = NoFile

\* The physics generator finds a fault table and what the analysis left.
InitPhysics ==
    /\ NoLocals
    /\ NoOthers
    /\ budget = 1
    /\ processed_earthquakes = File(<<Real("EQ_000004")>>)
    /\ \/ /\ b_value_file \in BValueFiles
          /\ marmara_faults = File(<<Truncated(NAF_Central, 2)>>)
          /\ synthetic_physics = NoFile
       \/ /\ b_value_file = NoBValueFile
          /\ marmara_faults \in {NoFile} \cup {File(t) : t \in SmallFaultTables}
          /\ synthetic_physics \in PhysicsFiles
          /\ Len(marmara_faults.rows) = 2 => synthetic_physics = NoFile
       \/ /\ b_value_file = BValueText(Inf)
          /\ marmara_faults = File(ShippedFaults)
          /\ synthetic_physics = NoFile
    /\ synthetic_bootstrap = NoFile
    /\ synthetic_simple = NoFile
    /\ combined_dataset = NoFile
    /\ final_dataset = NoFile

\* The simple generator finds a combined dataset.
InitSimple ==
    /\ NoLocals
    /\ NoOthers
    /\ budget = 1
    /\ processed_earthquakes = NoFile
    /\ b_value_file = NoBValueFile
    /\ marmara_faults = NoFile
    /\ synthetic_bootstrap = NoFile
    /\ synthetic_physics = NoFile
    /\ synthetic_simple \in SimpleFiles
    /\ combined_dataset \in CombinedFiles
    /\ final_dataset = NoFile

\* The assemblers find a catalog and the outputs of the generators.
InitAssemble ==
    /\ NoLocals
    /\ NoOthers
    /\ budget = 1
    /\ processed_earthquakes \in {File(c) : c \in RealCatalogs}
    /\ b_value_file = NoBValueFile
    /\ marmara_faults = NoFile
    /\ synthetic_bootstrap \in BootstrapFiles
    /\ synthetic_physics \in PhysicsFiles
    /\ synthetic_simple \in SimpleFiles
    /\ combined_dataset = NoFile
    /\ final_dataset = NoFile

Init == InitBootstrap \/ InitPhysics \/ InitSimple \/ InitAssemble

\* segment_can_host_rupture on its own: the segments and the rupture
\* lengths, 0.01 km, it is called with.  The lengths are around the length
\* of each trace and each length_km, and the ruptures of magnitudes 6.5 and
\* 7.3.
HostCheckSegments ==
    { NAF_Western, NAF_Central, NAF_Eastern, NAF_Southern,
      Truncated(NAF_Central, 2), Truncated(NAF_Southern, 1) }
HostCheckLengths ==
    { 0, 1, 2514, 5173, 5174, 5175, 6317, 6500, 7000, 8500, 9142, 9143,
      9144, 9877, 9878, 9879, 10341, 10342, 10343, 12000, 17268, 17269,
      17270 }
InitHostCheck ==
    /\ NoLocals
    /\ marmara_catalog_processed = NoFile
    /\ time_check = [called |-> FALSE]
    /\ budget = 0
    /\ processed_earthquakes = NoFile
    /\ b_value_file = NoBValueFile
    /\ marmara_faults = NoFile
    /\ synthetic_bootstrap = NoFile
    /\ synthetic_physics = NoFile
    /\ synthetic_simple = NoFile
    /\ combined_dataset = NoFile
    /\ final_dataset = NoFile
    /\ \E segment \in HostCheckSegments, rupture_length \in HostCheckLengths :
          host_check = [called |-> FALSE, segment |-> segment,
                        rupture_length |-> rupture_length, result |-> FALSE]

(***************************************************************************)
(* segment_can_host_rupture(segment, rupture_length), lines 80-111, called *)
(* on its own.                                                             *)
(***************************************************************************)
HostCheckCall ==
    /\ "segment" \in DOMAIN host_check
    /\ ~host_check.called
    /\ host_check' =
          [host_check EXCEPT
              !.called = TRUE,
              !.result = segment_can_host_rupture(host_check.segment,
                                                  host_check.rupture_length)]
    /\ UNCHANGED <<files, pc, budget, generator_locals, assembler_locals,
                   marmara_catalog_processed, time_check>>

(***************************************************************************)
(* The origin times of the events of indexes i and i + 1, lines 148-150,   *)
(* computed on their own for every index of the configured run.            *)
(***************************************************************************)
\* random.uniform(6, 12), whole months.
TimeCheckMonths == 6..12
InitOriginTime ==
    /\ NoLocals
    /\ marmara_catalog_processed = NoFile
    /\ host_check = NoHostCheck
    /\ budget = 0
    /\ processed_earthquakes = NoFile
    /\ b_value_file = NoBValueFile
    /\ marmara_faults = NoFile
    /\ synthetic_bootstrap = NoFile
    /\ synthetic_physics = NoFile
    /\ synthetic_simple = NoFile
    /\ combined_dataset = NoFile
    /\ final_dataset = NoFile
    /\ \E index \in 0..(n_synthetics - 1), months \in TimeCheckMonths, next_months \in TimeCheckMonths :
          time_check = [called |-> FALSE, i |-> index, months |-> months,
                        next_months |-> next_months,
                        origin_time |-> NaN, next_origin_time |-> NaN]

\* Two consecutive turns of the loop: the event of index i, and the event
\* of index i + 1 when the run has one.
OriginTimeCall ==
    /\ "i" \in DOMAIN time_check
    /\ ~time_check.called
    /\ time_check' =
          [time_check EXCEPT
              !.called = TRUE,
              !.origin_time = OriginTime(time_check.i, time_check.months),
              !.next_origin_time =
                  IF time_check.i + 1 < n_synthetics
                  THEN OriginTime(time_check.i + 1, time_check.next_months)
                  ELSE NaN]
    /\ UNCHANGED <<files, pc, budget, generator_locals, assembler_locals,
                   marmara_catalog_processed, host_check>>

(***************************************************************************)
(* analyze_earthquake_catalog(), analyze_earthquake_data.py.               *)
(***************************************************************************)
\* np.sum of a column.
RECURSIVE SumOf(_)
SumOf(values) ==
    IF values = << >> THEN 0 ELSE values[1] + SumOf(Tail(values))

\* Lines 62-75: the maximum likelihood b-value, in hundredths, of the
\* magnitudes >= m_min; None (NaN here) when there are fewer than two.
\* log10(e) = 0.4343, and the division by a zero mean_mag - m_min gives inf.
estimate_b_value(all_magnitudes, m_min) ==
    LET mags == SelectSeq(all_magnitudes, LAMBDA m : Ge(m, m_min))
        excess == SumOf(mags) - Len(mags) * m_min
    IN  IF Len(mags) < 2 THEN NaN
        ELSE IF excess = 0 THEN Inf
        ELSE (4343 * Len(mags)) \div excess

\* Lines 28-231: the whole analysis.  It reads the catalog and, for the
\* map, the fault table; np.arange over the magnitude range raises when no
\* event has magnitude >= 3.0 (line 91).  It writes str(b_val) to
\* b_value.txt (lines 218-223) and then formats b_val with :.2f (lines 224
\* and 230), which raises TypeError when b_val is None.  The plots and
\* processed_earthquakes_analyzed.csv, which no script reads, are left out.
AnalyzeCatalog ==
    /\ CanStart
    /\ LET m3plus_data == SelectSeq(processed_earthquakes.rows,
                                    LAMBDA e : Ge(e.magnitude, 300))
           magnitudes_m3 == [k \in 1..Len(m3plus_data) |-> m3plus_data[k].magnitude]
           b_val == estimate_b_value(magnitudes_m3, 350)
       IN  IF \/ ~processed_earthquakes.exists
              \/ m3plus_data = << >>
              \/ ~marmara_faults.exists
           THEN Abort
           ELSE /\ b_value_file' = BValueText(b_val)
                /\ pc' = IF b_val = NaN THEN "aborted" ELSE "idle"
                /\ budget' = budget - 1
                /\ UNCHANGED <<processed_earthquakes, marmara_faults,
                               synthetic_bootstrap, synthetic_physics,
                               synthetic_simple, combined_dataset,
                               final_dataset, generator_locals,
                               assembler_locals, others>>

\* The analysis and the physics generator, one after the other in either
\* order: the catalogs have no, one, or two and more magnitudes >= 3.5.
AnalysisCatalogs ==
    { << >>,
      <<Real("EQ_000004")>>,
      <<Real("EQ_000004"), Real("EQ_000001")>>,
      <<Real("EQ_000001"), Real("EQ_000002")>>,
      <<Real("EQ_000004"), Real("EQ_000002"), Real("EQ_000005")>> }
InitAnalysis ==
    /\ NoLocals
    /\ NoOthers
    /\ budget = 2
    /\ processed_earthquakes \in {NoFile} \cup {File(c) : c \in AnalysisCatalogs}
    /\ b_value_file \in {NoBValueFile, BValueText(77)}
    /\ marmara_faults \in {NoFile, File(<<Truncated(NAF_Southern, 1)>>)}
    /\ synthetic_bootstrap = NoFile
    /\ synthetic_physics = NoFile
    /\ synthetic_simple = NoFile
    /\ combined_dataset = NoFile
    /\ final_dataset = NoFile

(***************************************************************************)
(* prepare_marmara_catalog(), prepare_marmara_catalog.py.                  *)
(***************************************************************************)
\* The columns of the raw catalog the preparation looks for: the time
\* (named datetime or time), the depth (named depth or depth_km) and four
\* more.  The raw file carries the set of the columns it has.
raw_columns == {"time", "magnitude", "longitude", "latitude", "depth_km", "id"}

\* The raw file that holds the given events in the given columns.
RawFile(rows, columns) ==
    [exists |-> TRUE,
     rows |-> [k \in 1..Len(rows) |->
                  [col \in DOMAIN BlankRow |->
                      IF col \in columns THEN rows[k][col] ELSE BlankRow[col]]],
     columns |-> columns]

\* Lines 37-96: the row of index k (from 1) of processed_data: the depth
\* defaults to 10 km and the id to f"EQ_{k:06d}" when the raw catalog has
\* no such column.
PreparedEvent(raw, k, columns) ==
    RealEvent(IF "id" \in columns THEN raw.id ELSE "EQ_000" \o Pad3(k),
              raw.time, raw.magnitude, raw.longitude, raw.latitude,
              IF "depth_km" \in columns THEN raw.depth_km ELSE 1000)

\* Lines 6-100: the whole preparation.  It returns None, writing nothing,
\* when the raw catalog is not found or has no time, magnitude, longitude
\* or latitude column; a missing depth or id column is filled in.
PrepareCatalog ==
    /\ CanStart
    /\ LET raw_data == marmara_catalog_processed
       IN  IF \/ ~raw_data.exists
              \/ ~({"time", "magnitude", "longitude", "latitude"} \subseteq raw_data.columns)
           THEN Abort
           ELSE /\ processed_earthquakes' =
                      File([k \in 1..Len(raw_data.rows) |->
                               PreparedEvent(raw_data.rows[k], k, raw_data.columns)])
                /\ pc' = "idle"
                /\ budget' = budget - 1
                /\ UNCHANGED <<b_value_file, marmara_faults, synthetic_bootstrap,
                               synthetic_physics, synthetic_simple,
                               combined_dataset, final_dataset,
                               generator_locals, assembler_locals, others>>

\* The preparation and the assembly, in either order: the raw catalog
\* lacks no column or one, and the catalog the assembler finds was prepared
\* by this script or lacks a column.
RawCatalogs ==
    { RawFile(rows, raw_columns \ missing) :
        rows \in { <<Real("EQ_000001")>>, <<Real("EQ_000004"), Real("EQ_000002")>> },
        missing \in {{}} \cup {{col} : col \in raw_columns} }
IncompleteCatalogs ==
    { <<[Real("EQ_000001") EXCEPT ![col] = BlankRow[col]],
        [Real("EQ_000005") EXCEPT ![col] = BlankRow[col]]>> :
        col \in raw_columns }
InitPrepare ==
    /\ NoLocals
    /\ host_check = NoHostCheck
    /\ time_check = [called |-> FALSE]
    /\ budget = 2
    /\ marmara_catalog_processed \in {NoFile} \cup RawCatalogs
    /\ processed_earthquakes \in {NoFile} \cup {File(c) : c \in IncompleteCatalogs}
    /\ b_value_file = NoBValueFile
    /\ marmara_faults = NoFile
    /\ synthetic_bootstrap \in BootstrapFiles \ {NoFile}
    /\ synthetic_physics \in PhysicsFiles \ {NoFile}
    /\ synthetic_simple = NoFile
    /\ combined_dataset = NoFile
    /\ final_dataset = NoFile

(***************************************************************************)
(* A generator run followed by the assembly.                               *)
(***************************************************************************)
\* Two script runs: the catalog has no template or one, no segment of the
\* fault table can host a rupture, and earlier runs of the two generators
\* may have left their files.
InitRerun ==
    /\ NoLocals
    /\ NoOthers
    /\ budget = 2
    /\ processed_earthquakes \in {File(<<Real("EQ_000004")>>), File(<<Real("EQ_000002")>>)}
    /\ b_value_file = NoBValueFile
    /\ marmara_faults = File(<<Truncated(NAF_Southern, 1)>>)
    /\ synthetic_bootstrap \in BootstrapFiles
    /\ synthetic_physics \in PhysicsFiles
    /\ synthetic_simple = NoFile
    /\ combined_dataset = NoFile
    /\ final_dataset = NoFile

(***************************************************************************)
(* The bootstrap generator followed by finalize_dataset, over catalogs     *)
(* whose ids and magnitudes are those of the raw catalog.                  *)
(***************************************************************************)
\* prepare_marmara_catalog.py:80-81 keeps the ids of a raw catalog that has
\* an id column: ids as the preparation generates them, a repeated id, and
\* ids that begin like those of the generators.
IdCatalogs ==
    { <<Real("EQ_000001"), Real("EQ_000002")>>,
      <<Real("EQ_000001"), [Real("EQ_000003") EXCEPT !.id = "EQ_000001"]>>,
      <<Real("EQ_000002"), [Real("EQ_000004") EXCEPT !.id = "SYN_EQ_000002"]>>,
      <<[Real("EQ_000001") EXCEPT !.id = "PHYS_001"], Real("EQ_000004")>>,
      <<[Real("EQ_000001") EXCEPT !.id = "SIMPLE_001"], Real("EQ_000004")>> }
\* prepare_marmara_catalog.py:51-52 keeps every magnitude of the raw
\* catalog: an event on the lowest edge of the magnitude bins, one below
\* it, and a template of magnitude 5.72.
EdgeMagnitudeCatalogs ==
    { <<RealEvent("EQ_000007", Timestamp(2010, 6, 15), 300, 27500, 40500, 800)>>,
      <<RealEvent("EQ_000008", Timestamp(2012, 3, 9), 250, 27900, 40600, 1100),
        Real("EQ_000001")>>,
      <<RealEvent("EQ_000009", Timestamp(2014, 5, 1), 572, 28000, 40700, 900)>> }
InitFinal ==
    /\ NoLocals
    /\ NoOthers
    /\ budget = 2
    /\ processed_earthquakes \in {File(c) : c \in IdCatalogs \cup EdgeMagnitudeCatalogs}
    /\ b_value_file = NoBValueFile
    /\ marmara_faults = NoFile
    /\ synthetic_bootstrap \in BootstrapFiles
    /\ synthetic_physics \in PhysicsFiles \ {NoFile}
    /\ synthetic_simple \in SimpleFiles \ {NoFile}
    /\ combined_dataset = NoFile
    /\ final_dataset = NoFile

(***************************************************************************)
(* Specifications: one per script, the whole pipeline, and the call of     *)
(* segment_can_host_rupture on its own.                                    *)
(***************************************************************************)
NextBootstrap == BootstrapLoad \/ BootstrapStep \/ BootstrapSave
NextPhysics ==
    PhysicsLoad \/ PhysicsMagnitudeStep \/ PhysicsEventStep \/ PhysicsSave
NextSimple == SimpleLoad \/ SimpleStep \/ SimpleSave
NextAssemble ==
    \/ AssembleLoad \/ AssembleFoldStep \/ AssembleSave
    \/ FinalizeLoad \/ FinalizeFoldStep \/ FinalizeSave
Next == NextBootstrap \/ NextPhysics \/ NextSimple \/ NextAssemble
NextHostCheck == HostCheckCall

SpecBootstrap == InitBootstrap /\ [][NextBootstrap]_vars
SpecPhysics == InitPhysics /\ [][NextPhysics]_vars
SpecSimple == InitSimple /\ [][NextSimple]_vars
SpecAssemble == InitAssemble /\ [][NextAssemble]_vars
Spec == Init /\ [][Next]_vars
SpecHostCheck == InitHostCheck /\ [][NextHostCheck]_vars
NextAnalysis == AnalyzeCatalog \/ NextPhysics
SpecAnalysis == InitAnalysis /\ [][NextAnalysis]_vars
NextPrepare == PrepareCatalog \/ AssembleLoad \/ AssembleFoldStep \/ AssembleSave
SpecPrepare == InitPrepare /\ [][NextPrepare]_vars
NextRerun ==
    \/ NextBootstrap \/ NextPhysics
    \/ AssembleLoad \/ AssembleFoldStep \/ AssembleSave
SpecRerun == InitRerun /\ [][NextRerun]_vars
NextFinal == NextBootstrap \/ FinalizeLoad \/ FinalizeFoldStep \/ FinalizeSave
SpecFinal == InitFinal /\ [][NextFinal]_vars
SpecOriginTime == InitOriginTime /\ [][OriginTimeCall]_vars

(***************************************************************************)
(* Claims about the assemblers (SpecAssemble).                             *)
(***************************************************************************)
\* Which assembler has read its inputs, and the rows it has written.
RanAssemble == pc = "assemble_folds" \/ combined_dataset.exists
RanFinalize == pc = "finalize_folds" \/ final_dataset.exists
\* The columns an assembler derives; a row keeps all the others.
SameInputColumns(out, in) ==
    [out EXCEPT !.year = in.year, !.cv_fold = in.cv_fold,
                !.mag_range = in.mag_range] = in

\* C1: an assembler's table has as many rows as the files it read have
\* together (real + bootstrap + physics, plus simple in finalize), and it
\* holds the rows of each file once, in the order of the files: row k of a
\* file is the row at that file's offset + k, the same in every column but
\* the year, cv_fold and mag_range the assembler sets.  The file the
\* assembler writes is that table.
C1_OutputIsEveryInputOnce ==
    (RanAssemble \/ RanFinalize) =>
        LET real   == processed_earthquakes.rows
            boot   == synthetic_bootstrap.rows
            phys   == synthetic_physics.rows
            simple == IF RanFinalize THEN synthetic_simple.rows ELSE << >>
            n1     == Len(real)
            n2     == n1 + Len(boot)
            n3     == n2 + Len(phys)
        IN  /\ Len(all_data) = Len(real) + Len(boot) + Len(phys) + Len(simple)
            /\ \A k \in 1..Len(real) : SameInputColumns(all_data[k], real[k])
            /\ \A k \in 1..Len(boot) :
                  SameInputColumns(all_data[n1 + k], boot[k])
            /\ \A k \in 1..Len(phys) :
                  SameInputColumns(all_data[n2 + k], phys[k])
            /\ \A k \in 1..Len(simple) :
                  SameInputColumns(all_data[n3 + k], simple[k])
            /\ combined_dataset.exists => combined_dataset.rows = all_data
            /\ final_dataset.exists => final_dataset.rows = all_data

\* C1, witness: finalize has written a dataset made of rows of all four
\* files.
C1_Witness ==
    /\ final_dataset.exists
    /\ Len(real_data) = 2 /\ Len(bootstrap_data) = 1
    /\ Len(physics_data) = 2 /\ Len(simple_data) = 1
    /\ Len(final_dataset.rows) = 6

\* The written rows of the assembler that ran.
AssembledRows ==
    IF final_dataset.exists THEN final_dataset.rows ELSE combined_dataset.rows
\* The indexes (from 0) of the ranges of the fold table that hold a year.
FoldsOf(year) ==
    {k \in 0..(Len(fold_years) - 1) :
        year # NaN /\ fold_years[k + 1][1] <= year /\ year <= fold_years[k + 1][2]}

\* C2: in a written dataset every row's cv_fold is the index of the range
\* of the fold table that holds its year, and -1 exactly when no range
\* holds it; so cv_fold is in -1 .. len(fold_years) - 1.
C2_FoldIsRangeOfYear ==
    \A k \in 1..Len(AssembledRows) :
        LET e == AssembledRows[k]
        IN  /\ e.year = YearOf(e.time)
            /\ e.cv_fold \in -1..(Len(fold_years) - 1)
            /\ (e.cv_fold = -1) <=> (FoldsOf(e.year) = {})
            /\ e.cv_fold # -1 => e.cv_fold \in FoldsOf(e.year)

\* C2, witness: a written dataset with a row outside every range (fold -1)
\* and a row on the last year of the first range (2005, fold 0).
C2_Witness ==
    /\ combined_dataset.exists
    /\ \E a, b \in 1..Len(combined_dataset.rows) :
          /\ combined_dataset.rows[a].cv_fold = -1
          /\ combined_dataset.rows[a].year = 2002
          /\ combined_dataset.rows[b].cv_fold = 0
          /\ combined_dataset.rows[b].year = 2005

\* The ranges of the fold table are pairwise disjoint.
FoldRangesDisjoint ==
    \A a, b \in 1..Len(fold_years) :
        a # b => \/ fold_years[a][2] < fold_years[b][1]
                 \/ fold_years[b][2] < fold_years[a][1]

\* C3: the ranges of the fold table are pairwise disjoint, and no step of
\* the fold loop changes the cv_fold of a row that an earlier step has set.
C3_NoFoldOverwritten ==
    [][/\ FoldRangesDisjoint
       /\ (pc \in {"assemble_folds", "finalize_folds"} /\ pc' = pc) =>
             \A k \in 1..Len(all_data) :
                 all_data[k].cv_fold # -1 =>
                     all_data'[k].cv_fold = all_data[k].cv_fold]_vars

\* C3, witness: the loop is past the second range, with a row in fold 0 and
\* a row in fold 1, and ranges left to process.
C3_Witness ==
    /\ pc = "assemble_folds"
    /\ fold_idx = 2
    /\ \E a, b \in 1..Len(all_data) :
          all_data[a].cv_fold = 0 /\ all_data[b].cv_fold = 1

(***************************************************************************)
(* Claims about the generators.                                            *)
(***************************************************************************)
\* The generator that ran, once its loop has started or ended.
RanBootstrap ==
    \/ pc = "bootstrap_loop"
    \/ pc = "idle" /\ budget = 0 /\ synthetic_events # << >>
          /\ synthetic_events[1].method = "bootstrap"
RanPhysics ==
    \/ pc \in {"physics_magnitudes", "physics_events"}
    \/ pc = "idle" /\ budget = 0 /\ Len(magnitudes) = NPhysics
RanSimple ==
    \/ pc = "simple_loop"
    \/ pc = "idle" /\ budget = 0 /\ synthetic_events # << >>
          /\ synthetic_events[1].method = "simple"

\* C4: every magnitude the physics sampler draws, with the b-value read
\* from the b-value file or the fallback, is at least 6.5 and at most 7.3;
\* so is the magnitude of every event made from one.
C4_PhysicsMagnitudeRange ==
    RanPhysics =>
        /\ \A k \in 1..Len(magnitudes) :
              650 <= magnitudes[k] /\ magnitudes[k] <= 730
        /\ \A k \in 1..Len(synthetic_events) :
              /\ 650 <= synthetic_events[k].magnitude
              /\ synthetic_events[k].magnitude <= 730

\* C4, witness: with the b-value 0.77 read from the file, the sampler has
\* drawn the floor 6.5 and a magnitude the cap brought down to 7.3.
C4_Witness ==
    /\ pc = "physics_events"
    /\ b_value = 77
    /\ magnitudes[1] = 650
    /\ magnitudes[2] = 730

\* An event the validity filter keeps.
IsValidEvent(e) == ~Lt(e.depth_km, 0) /\ ~Gt(e.rupture_length_km, 20000)

\* C5: no event in the file of any of the three strategies has depth_km < 0
\* or rupture_length_km > 200, and the file a strategy has just written
\* holds its raw events that pass the validity filter, in order.
C5_PersistedEventsValid ==
    /\ \A file \in {synthetic_bootstrap, synthetic_physics, synthetic_simple} :
          \A k \in 1..Len(file.rows) : IsValidEvent(file.rows[k])
    /\ (pc = "idle" /\ budget = 0 /\ synthetic_events # << >>) =>
          LET kept == SelectSeq(synthetic_events, IsValidEvent)
          IN  /\ RanBootstrap => synthetic_bootstrap = File(kept)
              /\ RanPhysics => synthetic_physics = File(kept)
              /\ RanSimple => synthetic_simple = File(kept)

\* C5, witness: the bootstrap strategy has written its file and the filter
\* has removed one of its two raw events.
C5_Witness ==
    /\ pc = "idle" /\ budget = 0
    /\ Len(synthetic_events) = 2
    /\ synthetic_events[1].method = "bootstrap"
    /\ ~IsValidEvent(synthetic_events[2])
    /\ synthetic_bootstrap = File(<<synthetic_events[1]>>)

\* The bootstrap generator has ended its run past the loading of the catalog.
BootstrapEnded ==
    /\ pc = "idle" /\ budget = 0
    /\ processed_earthquakes.exists
\* The events of the catalog with 5.0 <= magnitude < 6.0, in catalog order.
QualifyingEvents ==
    SelectSeq(processed_earthquakes.rows,
              LAMBDA e : e.magnitude # NaN /\ 500 <= e.magnitude
                         /\ e.magnitude < 600)

\* C6 as stated: after a run over at least one template, the bootstrap file
\* holds as many events as there are templates.
C6_PersistedCountIsTemplateCount ==
    (BootstrapEnded /\ QualifyingEvents # << >>) =>
        Len(synthetic_bootstrap.rows) = Len(QualifyingEvents)

\* C6, amended: the templates are the events of the catalog with
\* 5.0 <= magnitude < 6.0; the loop makes one raw event per template, in
\* order, skipping none; and the file written after a run over at least one
\* template holds the raw events with depth_km >= 0 and
\* rupture_length_km <= 200, so at most as many events as templates, and
\* as many exactly when every raw event passes.
C6_OneRawEventPerTemplate ==
    /\ pc = "bootstrap_loop" =>
          /\ template_events = QualifyingEvents
          /\ Len(synthetic_events) = i
    /\ (BootstrapEnded /\ QualifyingEvents # << >>) =>
          LET passing == {k \in 1..Len(synthetic_events) :
                             IsValidEvent(synthetic_events[k])}
          IN  /\ Len(synthetic_events) = Len(QualifyingEvents)
              /\ Len(synthetic_bootstrap.rows) = Cardinality(passing)
              /\ Len(synthetic_bootstrap.rows) <= Len(QualifyingEvents)
              /\ \A k \in 1..Len(synthetic_bootstrap.rows) :
                    \E j \in passing :
                        synthetic_bootstrap.rows[k] = synthetic_events[j]

\* C6, witness: a run over two templates has written one event, the other
\* raw event having a rupture longer than 200 km.
C6_Witness ==
    /\ BootstrapEnded
    /\ Len(QualifyingEvents) = 2
    /\ Len(synthetic_events) = 2
    /\ Len(synthetic_bootstrap.rows) = 1
    /\ \E k \in 1..2 : synthetic_events[k].rupture_length_km > 20000

\* C7: the k-th raw bootstrap event has the time, longitude, latitude and
\* depth of the k-th template, and the template's id behind 'SYN_'; it is
\* the template in every column but magnitude, id, log_energy, the rupture
\* columns, is_synthetic, sample_weight and method, which all differ; the
\* events of the file written are among the raw events.
C7_BootstrapKeepsTemplateValues ==
    RanBootstrap =>
        /\ \A k \in 1..Len(synthetic_events) :
              LET t == QualifyingEvents[k]
                  e == synthetic_events[k]
              IN  /\ e.time = t.time
                  /\ e.longitude = t.longitude
                  /\ e.latitude = t.latitude
                  /\ e.depth_km = t.depth_km
                  /\ e.id = "SYN_" \o t.id
                  /\ [e EXCEPT !.magnitude = t.magnitude,
                               !.id = t.id,
                               !.log_energy = t.log_energy,
                               !.rupture_length_km = t.rupture_length_km,
                               !.rupture_width_km = t.rupture_width_km,
                               !.rupture_area_km2 = t.rupture_area_km2,
                               !.is_synthetic = t.is_synthetic,
                               !.sample_weight = t.sample_weight,
                               !.method = t.method] = t
                  /\ e.magnitude # t.magnitude
                  /\ e.log_energy # t.log_energy
                  /\ e.rupture_length_km # t.rupture_length_km
                  /\ e.rupture_width_km # t.rupture_width_km
                  /\ e.rupture_area_km2 # t.rupture_area_km2
                  /\ e.is_synthetic # t.is_synthetic
                  /\ e.sample_weight # t.sample_weight
                  /\ e.method # t.method
        /\ pc = "idle" =>
              \A k \in 1..Len(synthetic_bootstrap.rows) :
                  \E j \in 1..Len(synthetic_events) :
                      synthetic_bootstrap.rows[k] = synthetic_events[j]

\* C7, witness: the file written holds the event made from the template
\* EQ_000002, with the template's time, place and depth.
C7_Witness ==
    /\ BootstrapEnded
    /\ Len(synthetic_bootstrap.rows) = 2
    /\ LET e == synthetic_bootstrap.rows[2]
           t == Real("EQ_000002")
       IN  /\ e.id = "SYN_EQ_000002"
           /\ e.magnitude > t.magnitude
           /\ <<e.time, e.longitude, e.latitude, e.depth_km>> =
                 <<t.time, t.longitude, t.latitude, t.depth_km>>

\* The length of a trace, 0.01 km: the great-circle distances between its
\* consecutive vertexes, summed from the last pair back.
RECURSIVE TraceLength(_)
TraceLength(coords) ==
    IF Len(coords) < 2 THEN 0
    ELSE TraceLength(SubSeq(coords, 1, Len(coords) - 1))
         + Haversine(coords[Len(coords) - 1][1], coords[Len(coords) - 1][2],
                     coords[Len(coords)][1], coords[Len(coords)][2])
\* The rupture length of the magnitude at an index (from 0), 0.01 km.
RuptureLengthAt(index) == ISqrt(200 * Pow10((magnitudes[index + 1] - 400) * 100))
\* No segment of the fault table can host the rupture of an index.
NoSegmentHosts(index) ==
    LET rupture_length == RuptureLengthAt(index)
    IN  \A s \in 1..Len(marmara_faults.rows) :
            TraceLength(marmara_faults.rows[s].coordinates) < rupture_length
\* The indexes below n that no segment of the fault table can host.
SkippedBelow(n) == {index \in 0..(n - 1) : NoSegmentHosts(index)}
\* The id the physics generator gives to the event of an index.
PhysicsIdAt(index) ==
    "SYN_PHYS_" \o (IF index + 1 < 10 THEN "00" ELSE IF index + 1 < 100 THEN "0" ELSE "")
                \o ToString(index + 1)

\* C8: the physics loop takes the indexes one by one to the end, never
\* aborting; an index no segment can host adds no event, every other index
\* adds the event of that index; so after n indexes the raw events number
\* n less the indexes skipped, and none stands in for a skipped index.
C8_SkippedIndexesOnly ==
    /\ [](pc = "physics_events" =>
            LET skipped == SkippedBelow(i)
                made    == {synthetic_events[k].id :
                               k \in 1..Len(synthetic_events)}
            IN  /\ Len(synthetic_events) = i - Cardinality(skipped)
                /\ \A index \in 0..(i - 1) :
                      (index \in skipped) <=> (PhysicsIdAt(index) \notin made))
    /\ [][(pc = "physics_events" /\ i < Len(magnitudes)) =>
             /\ pc' = "physics_events"
             /\ i' = i + 1
             /\ magnitudes' = magnitudes
             /\ IF NoSegmentHosts(i)
                THEN synthetic_events' = synthetic_events
                ELSE /\ Len(synthetic_events') = Len(synthetic_events) + 1
                     /\ SubSeq(synthetic_events', 1, Len(synthetic_events))
                           = synthetic_events]_vars

\* C8, witness: index 0 was skipped (no segment hosts a magnitude 7.3
\* rupture) and the loop went on to make the event of index 1.
C8_Witness ==
    /\ pc = "physics_events"
    /\ i = 2
    /\ SkippedBelow(2) = {0}
    /\ Len(synthetic_events) = 1
    /\ synthetic_events[1].id = "SYN_PHYS_002"

\* C9: every raw physics event, and every event of the file the run writes,
\* names in segment_id one segment of the fault table, whose trace is at
\* least as long as the event's rupture and whose strike, dip and rake are
\* the event's.
C9_EventOnHostingSegment ==
    RanPhysics =>
        \A e \in Range(synthetic_events)
                 \cup (IF pc = "idle" /\ synthetic_events # << >>
                       THEN Range(synthetic_physics.rows) ELSE {}) :
            \E s \in 1..Len(marmara_faults.rows) :
                LET segment == marmara_faults.rows[s]
                IN  /\ segment.segment_id = e.segment_id
                    /\ \A t \in 1..Len(marmara_faults.rows) :
                          marmara_faults.rows[t].segment_id = e.segment_id
                              => t = s
                    /\ TraceLength(segment.coordinates) >= e.rupture_length_km
                    /\ e.strike = segment.strike
                    /\ e.dip = segment.dip
                    /\ e.rake = segment.rake

\* C9, witness: of a table of two segments only NAF_Western can host the
\* magnitude 7.3 rupture, and the event written is on it.
C9_Witness ==
    /\ pc = "idle" /\ budget = 0
    /\ Len(marmara_faults.rows) = 2
    /\ \E k \in 1..Len(synthetic_physics.rows) :
          LET e == synthetic_physics.rows[k]
          IN  /\ e.magnitude = 730
              /\ e.segment_id = "NAF_Western"
              /\ TraceLength(marmara_faults.rows[2].coordinates)
                    < e.rupture_length_km
              /\ e \in Range(synthetic_events)

\* C10: segment_can_host_rupture(segment, L) is true exactly when the
\* great-circle distances between the consecutive vertexes of the segment's
\* trace sum to L or more, whatever the segment's length_km says; it is true
\* for L the length of the trace and false for any L above it.
C10_HostsIffTraceLongEnough ==
    ("segment" \in DOMAIN host_check /\ host_check.called) =>
        LET length == TraceLength(host_check.segment.coordinates)
        IN  /\ host_check.result <=> (length >= host_check.rupture_length)
            /\ host_check.rupture_length = length => host_check.result
            /\ host_check.rupture_length = length + 1 => ~host_check.result

\* C10, witness: the call with L the length of the trace of NAF_Central,
\* 103.42 km, above its length_km of 70, has answered true.
C10_Witness ==
    /\ "segment" \in DOMAIN host_check
    /\ host_check.called
    /\ host_check.segment = NAF_Central
    /\ host_check.rupture_length = TraceLength(NAF_Central.coordinates)
    /\ host_check.rupture_length > NAF_Central.length_km
    /\ host_check.result

\* C11: the avg_slip_m recorded for a physics event is the slip of the
\* moment relation, moment / (mu * area), multiplied by the log-normal
\* scatter factor drawn for that event.  Lines 144-146 draw the factor and
\* compute slip = avg_slip * slip_variation, but line 162 records avg_slip:
\* the statement is violated by every event made.
C11_RecordedSlipIsScattered ==
    RanPhysics =>
        \A k \in 1..Len(synthetic_events) :
            LET event    == synthetic_events[k]
                avg_slip == AvgSlip(event.magnitude, event.rupture_area_km2)
            IN  \E slip_variation \in SlipVariationDraws :
                    event.avg_slip_m = (avg_slip * slip_variation) \div 100

(***************************************************************************)
(* Claims about the origin times of the physics events (SpecOriginTime).   *)
(***************************************************************************)
\* C12: for every index i of the configured run of n_synthetics events and
\* every draw of the offset in [6, 12] months, the origin time of the event
\* is within the study period, from 2003-01-01 to 2025-01-01, both ends
\* included.
C12_OriginTimeInStudyPeriod ==
    ("i" \in DOMAIN time_check /\ time_check.called) =>
        /\ start_date <= time_check.origin_time
        /\ time_check.origin_time <= end_date
        /\ time_check.next_origin_time # NaN =>
              /\ start_date <= time_check.next_origin_time
              /\ time_check.next_origin_time <= end_date

\* The last index of the run with the largest draw: the latest origin time,
\* 12 * 19 * 30 = 6840 days after 2003-01-01, in 2021.
C12_Witness ==
    /\ "i" \in DOMAIN time_check
    /\ time_check.called
    /\ time_check.i = n_synthetics - 1
    /\ time_check.months = 12
    /\ time_check.origin_time = start_date + 6840
    /\ YearOf(time_check.origin_time) = 2021

(***************************************************************************)
(* Claims about the simple generator (SpecSimple).                         *)
(***************************************************************************)
\* An event within the ranges of the simple strategy: the study region, the
\* magnitude range and the depth range.
InSimpleRanges(event) ==
    /\ 26000 <= event.longitude /\ event.longitude <= 30500
    /\ 39500 <= event.latitude /\ event.latitude <= 41500
    /\ 650 <= event.magnitude /\ event.magnitude <= 730
    /\ 500 <= event.depth_km /\ event.depth_km <= 2000

\* C13: every event the simple strategy generates, and every event it
\* writes, has its longitude in [26.0, 30.5], its latitude in [39.5, 41.5],
\* its magnitude in [6.5, 7.3] and its depth_km in [5, 20].
C13_SimpleEventInRanges ==
    RanSimple =>
        /\ \A k \in 1..Len(synthetic_events) : InSimpleRanges(synthetic_events[k])
        /\ pc = "idle" =>
              /\ synthetic_simple.rows = synthetic_events
              /\ \A k \in 1..Len(synthetic_simple.rows) :
                    InSimpleRanges(synthetic_simple.rows[k])

\* A written event whose template sits 0.1 degree inside the east and north
\* borders: the jitter of +0.3 and +0.2 degree is clamped to the borders.
C13_Witness ==
    /\ RanSimple
    /\ pc = "idle"
    /\ \E k \in 1..Len(synthetic_simple.rows) :
          LET event == synthetic_simple.rows[k]
          IN  /\ event.method = "simple"
              /\ event.longitude = 30500
              /\ event.latitude = 41500
              /\ \E t \in 1..Len(template_events) :
                    /\ template_events[t].longitude = 30400
                    /\ template_events[t].latitude = 41400

(***************************************************************************)
(* Claims about the labels of the final catalog (SpecAssemble).            *)
(***************************************************************************)
\* The sample weight each method carries, in hundredths.
WeightOfMethod(method) ==
    CASE method = "real" -> 100
      [] method = "bootstrap" -> 30
      [] method = "physics" -> 50
      [] method = "simple" -> 20
      [] OTHER -> NaN

\* An event labelled as the pipeline labels it.
IsLabelled(event) ==
    /\ event.method \in {"real", "bootstrap", "physics", "simple"}
    /\ event.sample_weight = WeightOfMethod(event.method)
    /\ 0 < event.sample_weight /\ event.sample_weight <= 100
    /\ event.is_synthetic \in {0, 1}
    /\ event.is_synthetic = 0 <=> event.method = "real"

\* C14: in the final catalog every event's method is one of real,
\* bootstrap, physics and simple; its sample_weight is the weight of its
\* method (1.0, 0.3, 0.5, 0.2), within (0, 1]; and its is_synthetic is 0
\* exactly when the method is real.
C14_FinalCatalogLabels ==
    RanFinalize =>
        /\ \A k \in 1..Len(all_data) : IsLabelled(all_data[k])
        /\ \A k \in 1..Len(final_dataset.rows) : IsLabelled(final_dataset.rows[k])

\* A final catalog written with events of all four methods.
C14_Witness ==
    /\ final_dataset.exists
    /\ \A method \in {"real", "bootstrap", "physics", "simple"} :
          \E k \in 1..Len(final_dataset.rows) :
              final_dataset.rows[k].method = method

(***************************************************************************)
(* Claims about the b-value estimate (SpecAnalysis).                       *)
(***************************************************************************)
\* The estimate of the analysis over the catalog on disk.
CatalogBValue ==
    LET m3plus_data == SelectSeq(processed_earthquakes.rows,
                                 LAMBDA e : Ge(e.magnitude, 300))
    IN  estimate_b_value([k \in 1..Len(m3plus_data) |-> m3plus_data[k].magnitude], 350)

\* A step of the analysis that writes b_value.txt anew.
AnalysisWrites == b_value_file' # b_value_file

\* C15: on a catalog with fewer than two magnitudes >= 3.5 the estimator
\* returns None and the analysis still completes: the run that writes
\* b_value.txt ends normally.  Line 224 formats None with :.2f right after
\* the file is written, so the run ends on a TypeError instead.
C15_AnalysisCompletesWithoutEstimate ==
    [][(AnalysisWrites /\ CatalogBValue = NaN) => pc' = "idle"]_vars

\* The rest of the claim, which holds: the estimate is None exactly for
\* fewer than two magnitudes >= 3.5, the analysis leaves the text "None",
\* and a physics run that finds it uses the fallback b-value.
C15_PhysicsAfterNoEstimate ==
    /\ pc = "physics_events"
    /\ b_value_file.exists /\ ~b_value_file.is_float
    /\ Len(processed_earthquakes.rows) = 2
    /\ b_value = FallbackBValue
C15_FallbackAfterNoEstimate ==
    /\ (b_value_file.exists /\ ~b_value_file.is_float) =>
          /\ CatalogBValue = NaN
          /\ Len(SelectSeq(processed_earthquakes.rows,
                           LAMBDA e : Ge(e.magnitude, 350))) < 2
    /\ (pc \in {"physics_magnitudes", "physics_events"}
          /\ b_value_file.exists /\ ~b_value_file.is_float) =>
          b_value = FallbackBValue

(***************************************************************************)
(* Claims about the random draws of the generators (Spec).                 *)
(***************************************************************************)
\* C16: each strategy is deterministic given its inputs (the files it
\* reads, and a random source handed to it): a turn of a generator's loop
\* has one outcome, whatever the process-wide generators of random and
\* np.random hold.  The three functions take no argument and every draw is
\* a call on those process-wide generators, which no script seeds: the
\* same files and the same locals allow several outcomes.
C16_GeneratorsDeterministic ==
    [][/\ (pc = "bootstrap_loop" /\ i' = i + 1) =>
             \A magnitude_increase \in MagnitudeIncreaseDraws :
                 synthetic_events' =
                     Append(synthetic_events,
                            BootstrapEvent(template_events[i + 1], magnitude_increase))
       /\ (pc = "physics_magnitudes" /\ magnitudes' # magnitudes) =>
             \A r \in RandomDraws :
                 magnitudes' = Append(magnitudes, SampleMagnitude(r, b_value))
       /\ (pc = "simple_loop" /\ i' = i + 1) =>
             \A magnitude \in SimpleMagnitudeDraws, depth \in SimpleDepthDraws :
                 LET event == synthetic_events'[Len(synthetic_events')]
                 IN  /\ event.magnitude = magnitude
                     /\ event.depth_km = depth
      ]_vars

(***************************************************************************)
(* Claims about catalogs that lack a column (SpecPrepare).                 *)
(***************************************************************************)
\* Lines 56-58 of assemble_dataset.py: the required columns.
required_columns ==
    {"id", "time", "magnitude", "longitude", "latitude", "depth_km",
     "is_synthetic", "sample_weight", "method"}

\* A loaded frame lacks a column: it has rows, and none has a value in it.
FrameLacks(rows, col) ==
    /\ rows # << >>
    /\ \A k \in 1..Len(rows) : rows[k][col] = BlankRow[col]
LacksRequiredColumn(rows) == \E col \in required_columns : FrameLacks(rows, col)

\* The preparation persists only a raw catalog that had every column.
PrepareAbortsOnMissingColumn ==
    processed_earthquakes' # processed_earthquakes =>
        marmara_catalog_processed.columns = raw_columns
\* The assembler persists only when no loaded catalog lacks a column.
AssembleAbortsOnMissingColumn ==
    combined_dataset' # combined_dataset =>
        /\ ~LacksRequiredColumn(processed_earthquakes.rows)
        /\ ~LacksRequiredColumn(synthetic_bootstrap.rows)
        /\ ~LacksRequiredColumn(synthetic_physics.rows)

\* C17: when a loaded catalog lacks a required column the stage aborts
\* before persisting: the preparation writes no processed_earthquakes.csv
\* and the assembler writes no combined_dataset_v1.csv.  The preparation
\* fills in a missing depth or id and writes; the assembler only warns
\* (lines 60-62) and writes.
C17_MissingColumnAborts ==
    [][PrepareAbortsOnMissingColumn /\ AssembleAbortsOnMissingColumn]_vars
C17_PrepareHalf == [][PrepareAbortsOnMissingColumn]_vars
C17_AssembleHalf == [][AssembleAbortsOnMissingColumn]_vars

\* What does hold: the preparation writes nothing when the time, the
\* magnitude, the longitude or the latitude is missing, and every row it
\* writes has every required column.
C17_PreparedCatalogComplete ==
    [][processed_earthquakes' # processed_earthquakes =>
          /\ {"time", "magnitude", "longitude", "latitude"} \subseteq marmara_catalog_processed.columns
          /\ \A k \in 1..Len(processed_earthquakes'.rows), col \in required_columns :
                processed_earthquakes'.rows[k][col] # BlankRow[col]]_vars

(***************************************************************************)
(* Claims about a generator run without valid events (SpecRerun).          *)
(***************************************************************************)
\* The assembler has loaded its inputs as the second of the two runs; the
\* first was the physics, or the bootstrap, generator, which made the given
\* raw events.
AssemblesAfterRun == pc = "assemble_folds" /\ budget = 0 /\ ~combined_dataset.exists
AfterPhysicsRun == AssemblesAfterRun /\ Len(magnitudes) = NPhysics
AfterBootstrapRun ==
    AssemblesAfterRun /\ synthetic_events # << >> /\ synthetic_events[1].method = "bootstrap"

\* C18: when a run of the bootstrap or of the physics generator produces no
\* valid event, the assembler that runs afterwards loads an empty set for
\* that strategy, whatever an earlier run of the generator persisted.  A
\* generator that made no raw event writes nothing (bootstrap lines 89-138
\* and physics lines 192-268 are under "if synthetic_events:"), so the file
\* of the earlier run is still there and is what the assembler loads.
C18_EmptySetAfterNoValidEvent ==
    /\ (AfterPhysicsRun /\ ValidityFilter(synthetic_events) = << >>) =>
          physics_data = << >>
    /\ (AfterBootstrapRun /\ ValidityFilter(synthetic_events) = << >>) =>
          bootstrap_data = << >>

\* What does hold: a generator that made raw events, none of them valid,
\* writes its file with no row, and the assembler loads no row from it.
C18_EmptySetAfterInvalidEvents ==
    (AfterBootstrapRun /\ ValidityFilter(synthetic_events) = << >>) =>
        bootstrap_data = << >>
C18_InvalidEventsReached ==
    AfterBootstrapRun /\ ValidityFilter(synthetic_events) = << >> /\ bootstrap_data = << >>

\* The same for the bootstrap generator that finds no template: the run
\* that ends with no valid event leaves a file with no row.
C18_BootstrapLeavesEmptyFile ==
    [][(pc = "bootstrap_loop" /\ pc' = "idle" /\ ValidityFilter(synthetic_events) = << >>) =>
          (synthetic_bootstrap'.exists /\ synthetic_bootstrap'.rows = << >>)]_vars

(***************************************************************************)
(* Claims about the magnitudes of the bootstrap events (SpecBootstrap).    *)
(***************************************************************************)
\* C19: every event the bootstrap strategy generates, and every event it
\* writes, has its magnitude within 6.5..7.3, the target range.  The
\* magnitude is the template's, in [5.0, 6.0), plus the draw in [1.5, 2.3]:
\* it is at least 6.5 and can reach 8.3.
C19_BootstrapMagnitudeInTarget ==
    RanBootstrap =>
        /\ \A k \in 1..Len(synthetic_events) :
              /\ 650 <= synthetic_events[k].magnitude
              /\ synthetic_events[k].magnitude <= 730
        /\ pc = "idle" =>
              \A k \in 1..Len(synthetic_bootstrap.rows) :
                  /\ 650 <= synthetic_bootstrap.rows[k].magnitude
                  /\ synthetic_bootstrap.rows[k].magnitude <= 730

\* What does hold: no bootstrap event is below 6.5.
C19_BootstrapMagnitudeAtLeastFloor ==
    RanBootstrap =>
        \A k \in 1..Len(synthetic_events) :
            650 <= synthetic_events[k].magnitude

(***************************************************************************)
(* Claims about the spacing of the physics events (SpecOriginTime).        *)
(***************************************************************************)
\* C20: the origin times of two consecutive physics events, of indexes i
\* and i + 1, are at least 6 and at most 12 months of 30 days apart.  The
\* offset of index i is its own draw times i, not the sum of the draws so
\* far: the spacing is 30 * (next_months * (i + 1) - months * i) days,
\* which is within 180..360 for i = 0 only.
C20_ConsecutiveEventsSpaced ==
    ("i" \in DOMAIN time_check /\ time_check.called
        /\ time_check.next_origin_time # NaN) =>
        LET spacing == time_check.next_origin_time - time_check.origin_time
        IN  6 * 30 <= spacing /\ spacing <= 12 * 30

\* What does hold: the first two events are 6 to 12 months apart.
C20_FirstEventsSpaced ==
    ("i" \in DOMAIN time_check /\ time_check.called /\ time_check.i = 0) =>
        LET spacing == time_check.next_origin_time - time_check.origin_time
        IN  6 * 30 <= spacing /\ spacing <= 12 * 30

(***************************************************************************)
(* Claims about the ids of the final catalog (SpecFinal).                    *)
(***************************************************************************)
\* The ids of rows are pairwise distinct.
DistinctIds(rows) ==
    \A j, k \in 1..Len(rows) : rows[j].id = rows[k].id => j = k
\* An id begins with the given prefix.
HasPrefix(id, prefix) ==
    Len(id) >= Len(prefix) /\ SubSeq(id, 1, Len(prefix)) = prefix
\* No real id can be taken for, or turned into, the id of a generator:
\* none begins with SYN_, PHYS_ or SIMPLE_.
PlainRealIds(rows) ==
    \A k \in 1..Len(rows) :
        \A prefix \in {"SYN_", "PHYS_", "SIMPLE_"} : ~HasPrefix(rows[k].id, prefix)

BinsOf(magnitude) ==
    {k \in 1..(Len(mag_bins) - 1) :
        Gt(magnitude, mag_bins[k]) /\ Le(magnitude, mag_bins[k + 1])}
\* The number of rows the summary counts: groupby leaves out the rows
\* whose mag_range is NaN.
SummaryCount(rows) == Cardinality({k \in 1..Len(rows) : rows[k].mag_range # NaN})

\* C22: every event of the assembled catalog falls in exactly one of the
\* bins with edges 3.0, 4.0, 5.0, 6.0, 7.0, 8.0, so the counts of the
\* summary add up to the length of the catalog.
C22_SummaryCountsEveryEvent ==
    final_dataset.exists =>
        /\ \A k \in 1..Len(final_dataset.rows) :
              Cardinality(BinsOf(final_dataset.rows[k].magnitude)) = 1
        /\ SummaryCount(final_dataset.rows) = Len(final_dataset.rows)

\* What does hold: no event falls in two bins, and the summary counts
\* exactly the events with 3.0 < magnitude <= 8.0.
C22_SummaryCountsBinnedEvents ==
    final_dataset.exists =>
        /\ \A k \in 1..Len(final_dataset.rows) :
              /\ Cardinality(BinsOf(final_dataset.rows[k].magnitude)) <= 1
              /\ final_dataset.rows[k].mag_range # NaN <=>
                    (Gt(final_dataset.rows[k].magnitude, 300)
                        /\ Le(final_dataset.rows[k].magnitude, 800))
\* The events the summary leaves out: a real event of magnitude 3.0, and a
\* written bootstrap event above 8.0.
C22_EdgeEventLeftOut ==
    /\ final_dataset.exists
    /\ \E k \in 1..Len(final_dataset.rows) :
          /\ final_dataset.rows[k].magnitude = 300
          /\ final_dataset.rows[k].mag_range = NaN
C22_BootstrapEventLeftOut ==
    /\ final_dataset.exists
    /\ \E k \in 1..Len(final_dataset.rows) :
          /\ final_dataset.rows[k].method = "bootstrap"
          /\ final_dataset.rows[k].magnitude > 800
          /\ final_dataset.rows[k].mag_range = NaN

(***************************************************************************)
(* Claims about the validity filter in the physics generator (SpecPhysics).*)
(***************************************************************************)
\* The physics run has ended and has written its events.
PhysicsWrote == RanPhysics /\ pc = "idle" /\ synthetic_events # << >>

\* C23: the validity filter never removes a physics event.  Every raw
\* physics event has depth_km in [5, 15] and a rupture length, by the area
\* law, of at most 200 km, so the filter keeps all of them; the set the
\* run persists is the raw set, and its size is n less the number of the
\* skipped indexes.
C23_FilterKeepsPhysicsEvents ==
    RanPhysics =>
        /\ \A k \in 1..Len(synthetic_events) :
              /\ 500 <= synthetic_events[k].depth_km
              /\ synthetic_events[k].depth_km <= 1500
              /\ synthetic_events[k].rupture_length_km <= 20000
              /\ synthetic_events[k].rupture_length_km =
                    ISqrt(200 * Pow10((synthetic_events[k].magnitude - 400) * 100))
        /\ ValidityFilter(synthetic_events) = synthetic_events
        /\ PhysicsWrote =>
              /\ synthetic_physics.rows = synthetic_events
              /\ Len(synthetic_physics.rows) =
                    NPhysics - Cardinality(SkippedBelow(NPhysics))

\* A run that skipped an index and wrote the event of another, at the
\* largest magnitude that a segment hosts and at the deepest draw.
C23_Witness ==
    /\ PhysicsWrote
    /\ Cardinality(SkippedBelow(NPhysics)) = 1
    /\ Len(synthetic_physics.rows) = NPhysics - 1
    /\ \E k \in 1..Len(synthetic_physics.rows) :
          synthetic_physics.rows[k].depth_km = 1500

(***************************************************************************)
(* Claims about the shipped fault table (SpecHostCheck).                   *)
(***************************************************************************)
\* The longest rupture the sampler's magnitudes give: that of the cap, 7.3.
LongestRupture == RuptureLength(RuptureArea(CapMagnitude))

\* C24: every segment of the shipped fault table can host the rupture of
\* every magnitude the sampler can produce, 6.5 to 7.3: the call of
\* segment_can_host_rupture on a shipped segment with a length up to that
\* of magnitude 7.3 is true.  So with the shipped table no index is
\* skipped and the physics generator makes n events.
C24_ShippedSegmentsHostEveryRupture ==
    ("segment" \in DOMAIN host_check /\ host_check.called
        /\ host_check.segment \in Range(ShippedFaults)
        /\ host_check.rupture_length <= LongestRupture) =>
        host_check.result

\* The shortest shipped trace, NAF_Western, asked for the rupture of
\* magnitude 7.3, 63.17 km.
C24_Witness ==
    /\ "segment" \in DOMAIN host_check
    /\ host_check.called
    /\ host_check.segment = NAF_Western
    /\ \A s \in Range(ShippedFaults) :
          TraceLength(NAF_Western.coordinates) <= TraceLength(s.coordinates)
    /\ host_check.rupture_length = LongestRupture
    /\ host_check.rupture_length = 6317
    /\ host_check.result

\* The consequence in the generator (SpecPhysics): a run over the shipped
\* table skips no index, and ends with n raw events, all of them written.
C24_ShippedRunSkipsNoIndex ==
    (RanPhysics /\ marmara_faults.rows = ShippedFaults) =>
        /\ pc = "physics_events" => Len(synthetic_events) = i
        /\ pc = "idle" =>
              /\ Len(synthetic_events) = NPhysics
              /\ synthetic_physics.rows = synthetic_events
C24_ShippedRunEnded ==
    /\ RanPhysics /\ marmara_faults.rows = ShippedFaults
    /\ pc = "idle"
    /\ Len(synthetic_physics.rows) = NPhysics

(***************************************************************************)
(* Claims about the fold of the simple events (SpecSimple).                *)
(***************************************************************************)
\* The day number is that of one of the days 1 to 28 of a month, the days
\* random.randint(1, 28) draws and every month has.
IsCalendarInstant(time) ==
    LET y == YearOf(time)
        first == DaysBeforeYear(y)
    IN  \E m \in 1..12 :
            LET d == time - first - DaysBeforeMonth(y, m) + 1
            IN  1 <= d /\ d <= 28 /\ d <= DaysInMonth(y, m)

\* The fold finalize_dataset gives an event, lines 58-72: -1, overwritten
\* in turn by the index of every range of the table that holds its year.
FoldGiven(event) ==
    LET e == WithYear(event)
        hits == {f \in 0..(Len(fold_years) - 1) : InFoldRange(e, f)}
    IN  IF hits = {} THEN e.cv_fold
        ELSE CHOOSE f \in hits : \A g \in hits : g <= f

\* C25: every event the simple strategy generates, and every event it
\* writes, has a timestamp that is a date of the calendar with its year in
\* 2003..2025; the fold table holds every year of 2003..2025; so the fold
\* finalize_dataset gives the event is in 0..6, never -1.
C25_SimpleEventGetsFold ==
    RanSimple =>
        /\ \A year \in 2003..2025 : FoldsOf(year) # {}
        /\ \A k \in 1..Len(synthetic_events) :
              LET event == synthetic_events[k]
                  year == YearOf(event.time)
                  fold == FoldGiven(event)
              IN  /\ IsCalendarInstant(event.time)
                  /\ year \in 2003..2025
                  /\ fold \in 0..6
                  /\ fold \in FoldsOf(year)
        /\ pc = "idle" => synthetic_simple.rows = synthetic_events

\* A written event of 28 December 2025, the last year of the last range of
\* the fold table: its fold is 6.
C25_Witness ==
    /\ RanSimple
    /\ pc = "idle"
    /\ \E k \in 1..Len(synthetic_simple.rows) :
          LET event == synthetic_simple.rows[k]
          IN  /\ event.method = "simple"
              /\ event.time = Timestamp(2025, 12, 28)
              /\ FoldGiven(event) = 6

\* The same in the final catalog (SpecAssemble): a simple row that
\* finalize_dataset wrote has its fold in 0..6.
C25_FinalSimpleRowsHaveFold ==
    (RanFinalize /\ pc = "idle" /\ final_dataset.exists) =>
        \A k \in 1..Len(final_dataset.rows) :
            /\ final_dataset.rows[k].cv_fold = FoldGiven(final_dataset.rows[k])
            /\ final_dataset.rows[k].method = "simple" =>
                  final_dataset.rows[k].cv_fold \in 0..6
C25_FinalSimpleRowReached ==
    /\ RanFinalize /\ pc = "idle" /\ final_dataset.exists
    /\ \E k \in 1..Len(final_dataset.rows) :
          /\ final_dataset.rows[k].method = "simple"
          /\ final_dataset.rows[k].cv_fold = 6

(***************************************************************************)
(* Claims about the energy of the bootstrap events (SpecBootstrap).        *)
(***************************************************************************)
\* log_energy = 1.5 * magnitude + 4.8, in thousandths.
EnergyRelation(event) ==
    /\ event.magnitude # NaN
    /\ event.log_energy # NaN
    /\ event.log_energy = 15 * event.magnitude + 4800

\* C26: the bootstrap strategy keeps the relation between energy and
\* magnitude: when the template has log_energy = 1.5 * magnitude + 4.8, the
\* event made from it has log_energy = 1.5 * magnitude + 4.8 with its own,
\* raised magnitude; so has every event the run writes.
C26_BootstrapKeepsEnergyRelation ==
    RanBootstrap =>
        /\ \A k \in 1..Len(synthetic_events) :
              EnergyRelation(template_events[k]) =>
                  /\ synthetic_events[k].magnitude > template_events[k].magnitude
                  /\ EnergyRelation(synthetic_events[k])
        /\ (pc = "idle" /\ synthetic_events # << >>) =>
              \A k \in 1..Len(synthetic_bootstrap.rows) :
                  (\A t \in 1..Len(template_events) :
                        EnergyRelation(template_events[t])) =>
                      EnergyRelation(synthetic_bootstrap.rows[k])

\* A written event made from the template of magnitude 5.90, log_energy
\* 13.65, with the increase 2.0: magnitude 7.90, log_energy 16.65.
C26_Witness ==
    /\ RanBootstrap
    /\ pc = "idle"
    /\ \E t \in 1..Len(template_events) :
          /\ template_events[t].magnitude = 590
          /\ template_events[t].log_energy = 13650
          /\ \E k \in 1..Len(synthetic_bootstrap.rows) :
                /\ synthetic_bootstrap.rows[k] = synthetic_events[t]
                /\ synthetic_bootstrap.rows[k].id = "SYN_" \o template_events[t].id
                /\ synthetic_bootstrap.rows[k].magnitude = 790
                /\ synthetic_bootstrap.rows[k].log_energy = 16650

=============================================================================
